---- MODULE Spec2Model ----
(***************************************************************************)
(* Verification model of the engagement -> Sparks -> Beats pipeline.       *)
(*                                                                         *)
(* Three groups of state are modelled:                                     *)
(*   - the pure delta engine of SparksService (calculateDelta and          *)
(*     calculateSparksFromDelta), exercised on bounded inputs (SpecDelta); *)
(*   - the POST /calculate-sparks sync flow over the EngagementSnapshot    *)
(*     collection, one request at a time (SpecSeqSync) and with two        *)
(*     overlapping requests (SpecSync);                                    *)
(*   - the Beat documents and the two BeatsService implementations found   *)
(*     in the repository (SpecBeats).                                      *)
(*                                                                         *)
(* Numbers. JavaScript numbers are modelled as integers. Where the code    *)
(* multiplies by a decimal rate the model works in hundredths (Sparks of   *)
(* a sync) or thousandths (values of a Beat) and rounds with Math.round's  *)
(* rule (half up); binary floating point error of the products is not      *)
(* modelled.                                                               *)
(***************************************************************************)
EXTENDS Integers, Sequences, FiniteSets, TLC

(***************************************************************************)
(* Bounds of the model.                                                    *)
(***************************************************************************)
\* largest sum of the engagement totals of one account
MaxEngagement == 2
\* largest sum of the totals of the previous snapshot handed to the delta engine
MaxPrevEngagement == 1
\* largest number of content items of one account
MaxContent == 1
\* largest number of syncs of one account in one run
MaxSyncs == 2
\* largest number of BeatsService calls in one run
MaxCalls == 3
\* the last millisecond of the wall clock of a run of the Beats service
MaxNow == 1

(***************************************************************************)
(* Arithmetic helpers.                                                     *)
(***************************************************************************)
\* Math.max(a, b)
Max(a, b) == IF a >= b THEN a ELSE b

\* Math.min(a, b)
Min(a, b) == IF a <= b THEN a ELSE b

\* Math.round(n / d) for d > 0: the nearest integer, halves rounded up
\* (Math.round(-0.5) is 0, Math.round(-1.5) is -1, Math.round(2.5) is 3).
RoundDiv(n, d) == (2 * n + d) \div (2 * d)

RECURSIVE SumOver(_, _)
\* sum of f[x] over the finite set S
SumOver(S, f) ==
  IF S = {} THEN 0
  ELSE LET x == CHOOSE y \in S : TRUE
       IN  f[x] + SumOver(S \ {x}, f)

(***************************************************************************)
(* Engagement metrics (PlatformMetrics, EngagementSnapshot.snapshot,       *)
(* EngagementSnapshot.deltaFromPrevious).                                  *)
(***************************************************************************)
\* the cumulative totals the route hands to the delta engine
TotalFields ==
  {"totalLikes", "totalDislikes", "totalComments", "totalViews", "totalShares",
   "totalSaves", "totalWatchTime", "totalImpressions", "totalReach"}

\* the fields calculateDelta produces
DeltaFields ==
  {"likes", "dislikes", "comments", "views", "shares", "saves", "watchTime",
   "impressions", "reach"}

\* the total a delta field is computed from
TotalOf ==
  [likes |-> "totalLikes", dislikes |-> "totalDislikes",
   comments |-> "totalComments", views |-> "totalViews",
   shares |-> "totalShares", saves |-> "totalSaves",
   watchTime |-> "totalWatchTime", impressions |-> "totalImpressions",
   reach |-> "totalReach"]

\* aggregateEngagementMetrics of no content: every total is 0
ZeroTotals == [f \in TotalFields |-> 0]

\* "no previous snapshot" (findOne returned null)
NoSnapshot == [none |-> TRUE]

\* platform names an account can carry; InsightIQ reports capitalised names,
\* "twitch" is accepted by the snapshot schema but has no rate table
Platforms ==
  {"youtube", "instagram", "twitter", "tiktok", "spotify", "twitch", "YouTube"}

\* String.prototype.toLowerCase on the platform names above
toLowerCase(p) == IF p = "YouTube" THEN "youtube" ELSE p

\* SPARKS_RATES in hundredths of a Spark per unit of engagement
SPARKS_RATES ==
  [youtube   |-> [like |-> 200, dislike |-> -50, comment |-> 500, view |-> 10,
                  watchHour |-> 1000, subscriber |-> 5000],
   instagram |-> [like |-> 100, comment |-> 300, view |-> 5, save |-> 200,
                  share |-> 400, follower |-> 2500],
   twitter   |-> [like |-> 100, retweet |-> 300, comment |-> 200,
                  impression |-> 1, follower |-> 2000],
   tiktok    |-> [like |-> 100, comment |-> 300, view |-> 2, share |-> 400,
                  follower |-> 3000],
   spotify   |-> [stream |-> 50, playlist |-> 1000, follower |-> 4000]]

\* calculateDelta without the Math.max(0, ...) clamp
calculateDelta_NoClamp(currentMetrics, previousSnapshot) ==
  [d \in DeltaFields |->
     IF previousSnapshot = NoSnapshot THEN currentMetrics[TotalOf[d]]
     ELSE currentMetrics[TotalOf[d]] - previousSnapshot.snapshot[TotalOf[d]]]

\* calculateDelta whose first-sync branch reports nothing as new
calculateDelta_FirstSyncEmpty(currentMetrics, previousSnapshot) ==
  [d \in DeltaFields |->
     IF previousSnapshot = NoSnapshot THEN 0
     ELSE Max(0, currentMetrics[TotalOf[d]] - previousSnapshot.snapshot[TotalOf[d]])]

\* SparksService.calculateDelta(currentMetrics, previousSnapshot)
calculateDelta(currentMetrics, previousSnapshot) ==
  IF previousSnapshot = NoSnapshot
  THEN [likes       |-> currentMetrics.totalLikes,
        dislikes    |-> currentMetrics.totalDislikes,
        comments    |-> currentMetrics.totalComments,
        views       |-> currentMetrics.totalViews,
        shares      |-> currentMetrics.totalShares,
        saves       |-> currentMetrics.totalSaves,
        watchTime   |-> currentMetrics.totalWatchTime,
        impressions |-> currentMetrics.totalImpressions,
        reach       |-> currentMetrics.totalReach]
  ELSE LET prev == previousSnapshot.snapshot
       IN [likes       |-> Max(0, currentMetrics.totalLikes - prev.totalLikes),
           dislikes    |-> Max(0, currentMetrics.totalDislikes - prev.totalDislikes),
           comments    |-> Max(0, currentMetrics.totalComments - prev.totalComments),
           views       |-> Max(0, currentMetrics.totalViews - prev.totalViews),
           shares      |-> Max(0, currentMetrics.totalShares - prev.totalShares),
           saves       |-> Max(0, currentMetrics.totalSaves - prev.totalSaves),
           watchTime   |-> Max(0, currentMetrics.totalWatchTime - prev.totalWatchTime),
           impressions |-> Max(0, currentMetrics.totalImpressions - prev.totalImpressions),
           reach       |-> Max(0, currentMetrics.totalReach - prev.totalReach)]

\* calculateSparksFromDelta without the default formula: a platform without
\* a rate table scores 0 (and a rated one only its likes)
calculateSparksFromDelta_UnratedZero(delta, platform) ==
  IF toLowerCase(platform) \notin DOMAIN SPARKS_RATES THEN 0
  ELSE delta.likes * 100

\* SparksService.calculateSparksFromDelta(delta, platform), in hundredths of
\* a Spark: a platform with a rate table yields Math.round(total), a whole
\* number of Sparks; a platform without one yields the unrounded default.
calculateSparksFromDelta(delta, platform) ==
  LET platformKey == toLowerCase(platform)
  IN  IF platformKey \notin DOMAIN SPARKS_RATES
      THEN delta.likes * 100 + delta.comments * 200 + delta.views * 1
      ELSE LET rates == SPARKS_RATES[platformKey]
               totalSparks ==
                 CASE platformKey = "youtube" ->
                        delta.likes * rates.like + delta.dislikes * rates.dislike
                        + delta.comments * rates.comment + delta.views * rates.view
                        + delta.watchTime * rates.watchHour
                   [] platformKey = "instagram" ->
                        delta.likes * rates.like + delta.comments * rates.comment
                        + delta.views * rates.view + delta.saves * rates.save
                        + delta.shares * rates.share
                   [] platformKey = "twitter" ->
                        delta.likes * rates.like + delta.comments * rates.comment
                        + delta.shares * rates.retweet
                        + delta.impressions * rates.impression
                   [] platformKey = "tiktok" ->
                        delta.likes * rates.like + delta.comments * rates.comment
                        + delta.views * rates.view + delta.shares * rates.share
                   [] platformKey = "spotify" ->
                        delta.views * rates.stream
           IN  100 * RoundDiv(totalSparks, 100)

\* the document saveSnapshot builds: the totals with totalPosts, the delta
\* (the schema defaults deltaFromPrevious.posts to 0), the score
NewSnapshot(accountId, platform, currentMetrics, delta, sparksGenerated, contentCount, syncedAt) ==
  [accountId |-> accountId,
   platform |-> toLowerCase(platform),
   syncedAt |-> syncedAt,
   snapshot |-> [f \in TotalFields \cup {"totalPosts"} |->
                   IF f = "totalPosts" THEN contentCount ELSE currentMetrics[f]],
   deltaFromPrevious |-> [f \in DeltaFields \cup {"posts"} |->
                            IF f = "posts" THEN 0 ELSE delta[f]],
   sparksGenerated |-> sparksGenerated,
   cPointsAwarded |-> sparksGenerated,
   contentCount |-> contentCount]

\* the totals of bounded size n
MetricsUpTo(n) ==
  {m \in [TotalFields -> 0..n] : SumOver(TotalFields, m) <= n}

\* the totals the bounded environment can report
MetricsInputs == MetricsUpTo(MaxEngagement)

(***************************************************************************)
(* The sync flow: accounts, requests, the EngagementSnapshot collection.   *)
(***************************************************************************)
\* the user's active connected accounts (one user is modelled)
Accounts == {"acc1"}

\* account.platform of each connected account
PlatformOf == [acc1 |-> "YouTube"]

\* the totals the platform of the modelled account moves
SyncFields == {"totalLikes", "totalDislikes"}

\* concurrent POST /calculate-sparks requests of the user
Requests == {"r1", "r2"}

\* a request that is not running
IdleRequest ==
  [pc |-> "idle", account |-> "acc1", contentCount |-> 0,
   currentMetrics |-> ZeroTotals, pending |-> NoSnapshot]

VARIABLES
  \* the platform's cumulative engagement totals of each account (InsightIQ)
  totals,
  \* the number of content items of each account (allContent.length)
  content,
  \* the EngagementSnapshot collection
  snapshots,
  \* the wall clock (Date.now), advanced by every reading
  clock,
  \* the requests in flight: position and locals of the handler
  req,
  \* which BeatsService and Beat model are deployed: "backup"
  \* (backup_new_files) or "live" (src/services, src/models)
  impl,
  \* the Beat collection
  beats,
  \* user.wavzProfile of the one user: sparks and the Beat aggregates
  user,
  \* Date.now() in milliseconds
  now,
  \* number of Beat ids the live service has generated
  minted,
  \* the createBeat calls: position, locals and outcome of each caller
  cb,
  \* number of BeatsService calls begun
  calls,
  \* delta engine under test: inputs, position, outputs
  fnCurrent, fnPrevious, fnPlatform, fnPc, fnDelta, fnSparks,
  \* user.wavzProfile.{sparks, level, levelProgress, cPoints} (whole Sparks)
  profile,
  \* the CPointsHistory collection convertCPointsToSparks reads
  cpHistory,
  \* weeks passed since the first record could have been processed
  week,
  \* what the last convertCPointsToSparks call returned
  conv,
  \* what the last getUserSparksInfo call returned
  info,
  \* the last adjustSparks call: its adjustment, its oldLevel, what it returned
  adj,
  \* number of calls that wrote or read the level state
  ops,
  \* calculateLevelInfo under test: the two inputs, the outputs, position
  lfIn, lfOut, lfPc,
  \* user.wavzProfile.cPoints
  cPoints,
  \* the CPointsHistory collection of the period-keyed CPointsService
  history,
  \* the processEngagementData calls: position, locals, outcome of each caller
  cp,
  \* number of processEngagementData calls begun
  cpCalls,
  \* the cPoints calculations under test: the input (dtIn), the outputs of
  \* the runs so far (dtOut), the week it is (dtPc)
  dtIn, dtOut, dtPc,
  \* the POST /calculate-sparks request that walks every connected account:
  \* position, loop index, locals of the account, platformResults, response
  rt,
  \* the getAllContentWithEngagements call under test: position, offset,
  \* allContent.length, the offsets requested so far
  pg

fnVars == <<fnCurrent, fnPrevious, fnPlatform, fnPc, fnDelta, fnSparks>>

syncVars == <<totals, content, snapshots, clock, req>>

beatVars == <<impl, beats, user, now, minted, cb, calls>>

levelVars == <<profile, cpHistory, week, conv, info, adj, ops>>

levelFnVars == <<lfIn, lfOut, lfPc>>

cpVars == <<cPoints, history, cp, cpCalls>>

detVars == <<dtIn, dtOut, dtPc>>

flowVars == <<rt, pg>>

\* the state of the level machine and of the cPoints calculator
scoreVars == <<levelVars, levelFnVars, cpVars, detVars, flowVars>>

vars == <<fnVars, syncVars, beatVars, scoreVars>>

(***************************************************************************)
(* Beats. Two implementations exist in the repository: the "backup" one    *)
(* (backup_new_files/beats.service.ts with the content-attributed Beat     *)
(* model) and the "live" one (services/beats.service.ts with               *)
(* src/models/Beat.ts                                                      *)
(* model). A run deploys one of them. Every Sparks value of a Beat and of  *)
(* the user (sparksInherited, finalValue, the performance values, sparks,  *)
(* beatsValue) is a JavaScript number and is kept in thousandths of a      *)
(* Spark; an engagement score is kept as the exact fraction num/den. Of    *)
(* the timestamps only the proof timestamps and the creation time are      *)
(* kept.                                                                   *)
(***************************************************************************)
\* the four onchain proofs of IOnChainActions
ProofTypes == {"proofOfPost", "proofOfHold", "proofOfUse", "proofOfSupport"}

\* the proofs the callers of a run submit
ProofInputs == {"proofOfPost", "proofOfHold"}

\* content of the user a Beat can be attributed to
ContentIds == {"c1", "c2"}

\* the platform of that content
BeatPlatform == "youtube"

\* sparksInheritance arguments the callers of the backup createBeat pass, in
\* thousandths: absent, or 1.3 Sparks
SparksInheritanceInputs == {0, 1300}

\* sparksAmount arguments the callers of the live createBeat pass, in
\* thousandths: 0, 1.3, 10 and 1000 Sparks
SparksAmountInputs == {0, 1300, 10000, 1000000}

\* the CPointsHistory records of the user: id |-> cPointsAwarded (whole points)
CPointsHistories == [h1 |-> 1667]

\* cPointsHistoryId arguments the callers pass
HistoryInputs == {"h1", "h0"}

\* engagement counters the callers report for a Beat
EngagementInputs ==
  {[likes |-> 1, comments |-> 0, views |-> 10],
   [likes |-> 10, comments |-> 1, views |-> 10]}

\* the engagementSnapshot a Beat of the backup service is created with
ZeroEngagement == [likes |-> 0, comments |-> 0, views |-> 0]

\* callers of createBeat that may run concurrently
Creators == {"p1", "p2"}

\* a caller that has made no call
IdleCreator == [pc |-> "idle", result |-> "none", doc |-> NoSnapshot]

\* user.wavzProfile as the schema defaults leave it, with 500 Sparks to spend
NewUser ==
  [sparks |-> 500000, totalBeats |-> 0, beatsValue |-> 0,
   proofStats |-> [p \in ProofTypes |-> 0],
   beatStats |-> [totalBeats |-> 0, averageBeatValue |-> [num |-> 0, den |-> 1],
                  bestPerformingBeat |-> "", monthlyBeats |-> 0,
                  lastBeatCreated |-> -1, trendingBeats |-> 0]]

\* the key a Beat is attributed to: (userId, platform, contentId) with one
\* user; the live model names the content metadata.externalId
ContentKey(beat) ==
  <<beat.metadata.platform,
    IF "contentId" \in DOMAIN beat.metadata
    THEN beat.metadata.contentId ELSE beat.metadata.externalId>>

\* the Beat with the given beatId
BeatById(id) == CHOOSE b \in beats : b.beatId = id

\* the number of proofs a Beat holds
ProofCount(beat) == Cardinality({p \in ProofTypes : beat.onchainActions[p]})

(* ---- backup implementation: Beat model of unnamed/part_000 ---- *)

\* the onchain bonus of each proof, in percent of sparksInherited
OnchainBonusPercent ==
  [proofOfPost |-> 10, proofOfHold |-> 15, proofOfUse |-> 20,
   proofOfSupport |-> 25]

\* calculatedValue of calculateValue: baseValue + totalOnchainBonus (exact
\* for a sparksInherited of whole tenths)
CalculatedValue(beat) ==
  beat.sparksInherited
  + SumOver(ProofTypes,
            [p \in ProofTypes |->
               IF beat.onchainActions[p]
               THEN (beat.sparksInherited * OnchainBonusPercent[p]) \div 100
               ELSE 0])

\* calculateValue that never raises performance.peakValue
BackupCalculateValue_PeakStale(beat) ==
  [beat EXCEPT !.performance.currentValue = CalculatedValue(beat),
               !.finalValue = 1000 * RoundDiv(CalculatedValue(beat), 1000)]

\* BeatSchema.methods.calculateValue followed by the assignment of its result
\* to this.finalValue, which every caller makes
BackupCalculateValue(beat) ==
  [beat EXCEPT
     !.performance.currentValue = CalculatedValue(beat),
     !.performance.peakValue =
        IF CalculatedValue(beat) > @ THEN CalculatedValue(beat) ELSE @,
     !.finalValue = 1000 * RoundDiv(CalculatedValue(beat), 1000)]

\* BeatSchema.pre("save"): the beatId of a new document, and finalValue
\* recalculated when the document is new or its proofs were modified
BackupPreSave(beat, isNew, proofsModified, ms) ==
  LET withId == IF beat.beatId = ""
                THEN [beat EXCEPT !.beatId = <<"BEAT", beat.metadata.platform, ms>>]
                ELSE beat
  IN  IF isNew \/ proofsModified THEN BackupCalculateValue(withId) ELSE withId

\* the document createBeat builds before saving it
BackupNewBeat(contentId, sparksInherited, ms) ==
  [beatId |-> "",
   sparksInherited |-> sparksInherited,
   onchainActions |-> [proofOfPost |-> FALSE, proofOfHold |-> FALSE,
                      proofOfUse |-> FALSE, proofOfSupport |-> FALSE,
                      lastUpdated |-> ms],
   metadata |-> [platform |-> BeatPlatform, contentId |-> contentId,
                 engagementMetrics |-> ZeroEngagement],
   finalValue |-> 0,
   performance |-> [initialValue |-> sparksInherited,
                    currentValue |-> sparksInherited,
                    peakValue |-> sparksInherited,
                    engagementGrowth |-> [num |-> 0, den |-> 1],
                    trending |-> FALSE]]

\* BeatSchema.methods.updateEngagement: merge the counters, recompute the
\* growth against the previous total, recalculate the value, save
BackupUpdateEngagement(beat, newMetrics) ==
  LET oldMetrics == beat.metadata.engagementMetrics
      merged == [f \in DOMAIN oldMetrics |->
                   IF f \in DOMAIN newMetrics THEN newMetrics[f] ELSE oldMetrics[f]]
      oldTotal == oldMetrics.likes + oldMetrics.comments + oldMetrics.views
      newTotal == merged.likes + merged.comments + merged.views
      grown == [beat EXCEPT
                  !.metadata.engagementMetrics = merged,
                  !.performance.engagementGrowth =
                     IF oldTotal > 0
                     THEN [num |-> (newTotal - oldTotal) * 100, den |-> oldTotal]
                     ELSE @]
  IN  BackupPreSave(BackupCalculateValue(grown), FALSE, FALSE, 0)

\* BeatSchema.methods.addOnChainProof: set the flag, stamp lastUpdated,
\* recalculate the value, save
BackupAddProof(beat, proofType, ms) ==
  LET proved == [beat EXCEPT !.onchainActions[proofType] = TRUE,
                             !.onchainActions.lastUpdated = ms]
  IN  BackupPreSave(BackupCalculateValue(proved), FALSE, TRUE, ms)

\* BeatsService.updateUserBeatStats of the backup service: the aggregates
\* are incremented by the new Beat
BackupUserBeatStats(u, newBeat, ms) ==
  LET totalBeats == u.totalBeats + 1
      beatsValue == u.beatsValue + newBeat.finalValue
      best == u.beatStats.bestPerformingBeat
      currentBest == {b \in beats : b.beatId = best}
  IN  [u EXCEPT
         !.totalBeats = totalBeats,
         !.beatsValue = beatsValue,
         !.beatStats.totalBeats = @ + 1,
         !.beatStats.lastBeatCreated = ms,
         !.beatStats.monthlyBeats = @ + 1,
         !.beatStats.averageBeatValue = [num |-> beatsValue, den |-> totalBeats],
         !.beatStats.bestPerformingBeat =
            IF currentBest = {}
               \/ \E b \in currentBest : newBeat.finalValue > b.finalValue
            THEN newBeat.beatId ELSE @]

(* ---- live implementation: src/models/Beat.ts ---- *)

\* performance.engagement of updatePerformance:
\* (likes*2 + shares*3 + comments*4) / max(views, 1) * 100
EngagementScore(perf) ==
  [num |-> (perf.likes * 2 + perf.shares * 3 + perf.comments * 4) * 100,
   den |-> Max(perf.views, 1)]

\* calculateValue whose performance term is a penalty instead of a bonus
LiveCalculateValue_Penalty(beat) ==
  LET e == beat.performance.engagement
  IN  [beat EXCEPT !.finalValue =
         1000 * RoundDiv(beat.sparksInherited
                           * (1000 * e.den + 100 * ProofCount(beat) * e.den
                              - Min(200 * e.den, e.num)),
                         1000 * e.den * 1000)]

\* BeatSchema.methods.calculateValue: 10% per proof and a performance bonus
\* of min(0.2, engagement / 1000)
LiveCalculateValue(beat) ==
  LET e == beat.performance.engagement
  IN  [beat EXCEPT !.finalValue =
         1000 * RoundDiv(beat.sparksInherited
                           * (1000 * e.den + 100 * ProofCount(beat) * e.den
                              + Min(200 * e.den, e.num)),
                         1000 * e.den * 1000)]

\* BeatSchema.methods.updatePerformance
LiveUpdatePerformance(beat, metrics) ==
  LET assigned == [f \in DOMAIN beat.performance |->
                     IF f \in DOMAIN metrics THEN metrics[f]
                     ELSE beat.performance[f]]
      e == EngagementScore(assigned)
      trending == e.num > 50 * e.den
  IN  LiveCalculateValue(
        [beat EXCEPT !.performance =
           [assigned EXCEPT !.engagement = e,
                            !.trending = trending,
                            !.trendingScore = IF trending THEN e ELSE @]])

\* BeatSchema.methods.addOnChainProof
LiveAddProof(beat, proofType, ms) ==
  LiveCalculateValue(
    [beat EXCEPT !.onchainActions[proofType] = TRUE,
                 !.onchainActions.actionTimestamps[proofType] = ms])

\* the document the live createBeat saves
LiveNewBeat(beatId, contentId, sparksAmount, ms) ==
  [beatId |-> beatId,
   sparksInherited |-> sparksAmount,
   onchainActions |-> [proofOfPost |-> FALSE, proofOfHold |-> FALSE,
                      proofOfUse |-> FALSE, proofOfSupport |-> FALSE,
                      actionTimestamps |-> [p \in ProofTypes |-> -1]],
   metadata |-> [platform |-> BeatPlatform, externalId |-> contentId,
                 createdAt |-> ms],
   performance |-> [views |-> 0, likes |-> 0, shares |-> 0, comments |-> 0,
                    engagement |-> [num |-> 0, den |-> 1],
                    trending |-> FALSE,
                    trendingScore |-> [num |-> 0, den |-> 1]],
   finalValue |-> sparksAmount]

\* the Beat with the highest finalValue among bs (the first of equals)
BestBeat(bs) == CHOOSE b \in bs : \A c \in bs : c.finalValue <= b.finalValue

\* BeatsService.updateUserBeatStats of the live service: the aggregates are
\* recomputed from all Beats of the user
LiveUserBeatStats(u, allBeats, beat) ==
  LET totalBeats == Cardinality(allBeats)
      totalValue == SumOver(allBeats, [b \in allBeats |-> b.finalValue])
  IN  [u EXCEPT
         !.totalBeats = totalBeats,
         !.beatsValue = totalValue,
         !.beatStats =
            [totalBeats |-> totalBeats,
             averageBeatValue |->
               [num |-> IF totalBeats > 0
                        THEN 1000 * RoundDiv(totalValue, totalBeats * 1000)
                        ELSE 0,
                den |-> 1],
             bestPerformingBeat |->
               IF allBeats = {} THEN "" ELSE BestBeat(allBeats).beatId,
             monthlyBeats |-> totalBeats,
             lastBeatCreated |-> beat.metadata.createdAt,
             trendingBeats |->
               Cardinality({b \in allBeats : b.performance.trending})]]

\* the Beats state before any call
BeatsIdle ==
  /\ impl = "backup"
  /\ beats = {}
  /\ user = NewUser
  /\ now = 0
  /\ minted = 0
  /\ cb = [p \in Creators |-> IdleCreator]
  /\ calls = 0

\* the sync state before any account has content or any request has run
SyncIdle ==
  /\ totals = [a \in Accounts |-> ZeroTotals]
  /\ content = [a \in Accounts |-> 0]
  /\ snapshots = {}
  /\ clock = 0
  /\ req = [r \in Requests |-> IdleRequest]

\* the delta engine's variables while the engine is not under test
FnIdle ==
  /\ fnCurrent = ZeroTotals
  /\ fnPrevious = NoSnapshot
  /\ fnPlatform = "youtube"
  /\ fnPc = "off"
  /\ fnDelta = NoSnapshot
  /\ fnSparks = 0

(***************************************************************************)
(* Exact fractions: a JavaScript number that is not a whole number is kept *)
(* as num/den with den > 0.                                                *)
(***************************************************************************)
\* the greatest common divisor of a >= 0 and b >= 0
RECURSIVE GCD(_, _)
GCD(a, b) == IF b = 0 THEN a ELSE GCD(b, a % b)

\* the number n/d, in lowest terms
Rat(n, d) ==
  LET g == GCD(IF n < 0 THEN -n ELSE n, d)
  IN  [num |-> n \div g, den |-> d \div g]

\* a + b
RatAdd(a, b) == Rat(a.num * b.den + b.num * a.den, a.den * b.den)

\* Math.min(100, Math.max(0, a))
ClampPercent(a) ==
  IF a.num < 0 THEN Rat(0, 1)
  ELSE IF a.num > 100 * a.den THEN Rat(100, 1)
  ELSE a

\* Math.round(a)
RatRound(a) == RoundDiv(a.num, a.den)

(***************************************************************************)
(* Levels. user.wavzProfile.{sparks, level, levelProgress} is written by   *)
(* the SparksService of the cPoints -> Sparks flow (unnamed/part_002), by  *)
(* the SparksService of the delta flow (src/services/sparks.service.ts)    *)
(* and by the onboarding routes. Sparks are whole numbers here.            *)
(***************************************************************************)
\* LEVEL_THRESHOLDS: the Sparks needed for levels 1..5
LEVEL_THRESHOLDS == <<0, 1000, 5000, 15000, 50000>>

\* levelThresholds of POST /onboarding/sparks
levelThresholds == <<0, 1000, 5000, 25000, 100000>>

\* the highest of a non-empty set of levels
Highest(S) == CHOOSE L \in S : \A K \in S : K <= L

\* the result of calculateLevelInfo once currentLevel is found
LevelInfoAt(sparks, currentLevel, progressAtTop) ==
  LET currentThreshold == LEVEL_THRESHOLDS[currentLevel]
      nextLevel == IF currentLevel < 5 THEN currentLevel + 1 ELSE 5
      nextThreshold == LEVEL_THRESHOLDS[nextLevel]
      progress ==
        IF nextLevel > currentLevel
        THEN Rat((sparks - currentThreshold) * 100, nextThreshold - currentThreshold)
        ELSE Rat(progressAtTop, 1)
  IN  [currentLevel |-> currentLevel,
       progress |-> ClampPercent(progress),
       nextLevelAt |-> nextThreshold]

\* calculateLevelInfo with the comparison turned around
calculateLevelInfo_Inverted(sparks) ==
  LET reached == {L \in 1..5 : sparks <= LEVEL_THRESHOLDS[L]}
  IN  LevelInfoAt(sparks, IF reached = {} THEN 1 ELSE Highest(reached), 100)

\* calculateLevelInfo that reports no progress at the top level
calculateLevelInfo_TopIsZero(sparks) ==
  LET reached == {L \in 1..5 : sparks >= LEVEL_THRESHOLDS[L]}
  IN  LevelInfoAt(sparks, IF reached = {} THEN 1 ELSE Highest(reached), 0)

\* SparksService.calculateLevelInfo: currentLevel starts at 1 and is set to
\* every level whose threshold the sparks reach, in ascending order
calculateLevelInfo(sparks) ==
  LET reached == {L \in 1..5 : sparks >= LEVEL_THRESHOLDS[L]}
  IN  LevelInfoAt(sparks, IF reached = {} THEN 1 ELSE Highest(reached), 100)

\* SparksService.updateUserSparks of the cPoints flow: findByIdAndUpdate of
\* sparks, level and levelProgress
updateUserSparks(p, totalSparks) ==
  LET levelInfo == calculateLevelInfo(totalSparks)
  IN  [p EXCEPT !.sparks = totalSparks,
                !.level = levelInfo.currentLevel,
                !.levelProgress = RatRound(levelInfo.progress)]

\* adjustSparks that keeps a level once it was reached
adjustSparks_LevelKept(p, adjustment) ==
  LET newSparks == Max(0, p.sparks + adjustment)
      levelInfo == calculateLevelInfo(newSparks)
  IN  [p EXCEPT !.sparks = newSparks,
                !.level = Max(p.level, levelInfo.currentLevel),
                !.levelProgress = RatRound(levelInfo.progress)]

\* SparksService.adjustSparks
adjustSparks(p, adjustment) ==
  LET newSparks == Max(0, p.sparks + adjustment)
      levelInfo == calculateLevelInfo(newSparks)
  IN  [p EXCEPT !.sparks = newSparks,
                !.level = levelInfo.currentLevel,
                !.levelProgress = RatRound(levelInfo.progress)]

\* SparksService.updateUserSparks of the delta flow: only sparks is assigned
\* (the creatorStats it also assigns are not modelled)
updateUserSparksFromTotal(p, totalSparks) == [p EXCEPT !.sparks = totalSparks]

\* POST /onboarding/sparks: the profile the route builds before saving it
awardSparks(p, amount) ==
  LET sparks == p.sparks + amount
      reached == {i \in 1..5 : sparks >= levelThresholds[i]}
      newLevel == IF reached = {} THEN 1 ELSE Highest(reached)
      currentLevelMin == levelThresholds[newLevel]
      nextLevelMin == levelThresholds[IF newLevel < 5 THEN newLevel + 1 ELSE 5]
  IN  [p EXCEPT !.sparks = sparks,
                !.level = newLevel,
                !.levelProgress =
                   IF newLevel < 5
                   THEN RoundDiv((sparks - currentLevelMin) * 100,
                                 nextLevelMin - currentLevelMin)
                   ELSE 100]

\* the schema validators of level and levelProgress, which user.save() runs
ValidProfile(p) == p.level \in 1..5 /\ p.levelProgress \in 0..100

\* user.wavzProfile as the schema defaults leave it
NewProfile == [sparks |-> 0, level |-> 1, levelProgress |-> 0, cPoints |-> 0]

\* SparksService.createEmptyResult
createEmptyResult ==
  [totalSparks |-> 0,
   levelInfo |-> [currentLevel |-> 1, progress |-> Rat(0, 1),
                  nextLevelAt |-> LEVEL_THRESHOLDS[2]]]

(***************************************************************************)
(* cPoints -> Sparks conversion (SparksService of unnamed/part_002) over   *)
(* the CPointsHistory records the CPointsService of unnamed/part_003       *)
(* writes. Time is counted in weeks; a record carries the content of one   *)
(* account, so all its rawEngagement entries are of one platform. Weights  *)
(* are kept in tenths.                                                     *)
(***************************************************************************)
\* SUSTAINABILITY_WEIGHTS.platformMultipliers, in tenths; 1.0 for any other
platformMultipliers ==
  [youtube |-> 12, instagram |-> 10, tiktok |-> 9, twitter |-> 8, spotify |-> 13]

\* calculateTimeWeight: SUSTAINABILITY_WEIGHTS.timeMultipliers by age, in tenths
calculateTimeWeight(processedAt, nowWeek) ==
  LET daysDiff == 7 * (nowWeek - processedAt)
  IN  IF daysDiff <= 7 THEN 10
      ELSE IF daysDiff <= 30 THEN 8
      ELSE IF daysDiff <= 90 THEN 6
      ELSE IF daysDiff <= 180 THEN 4
      ELSE 2

\* calculatePlatformWeight of a record whose rawEngagement is of one platform
calculatePlatformWeight(entry) ==
  IF entry.contentCount = 0 THEN 10
  ELSE IF toLowerCase(entry.platform) \in DOMAIN platformMultipliers
  THEN platformMultipliers[toLowerCase(entry.platform)]
  ELSE 10

\* calculateConsistencyBonus: SUSTAINABILITY_WEIGHTS.consistencyBonus by the
\* average number of days between successive records, in tenths; the
\* differences of the sorted processedAt add up to newest - oldest
calculateConsistencyBonus(entries) ==
  IF Cardinality(entries) < 2 THEN 6
  ELSE LET newest == Highest({e.processedAt : e \in entries})
           oldest == -Highest({-e.processedAt : e \in entries})
           days == 7 * (newest - oldest)
           gaps == Cardinality(entries) - 1
       IN  IF days <= 1 * gaps THEN 15
           ELSE IF days <= 7 * gaps THEN 12
           ELSE IF days <= 14 * gaps THEN 10
           ELSE IF days <= 30 * gaps THEN 8
           ELSE 6

\* calculateSparksFromCPoints: Math.round of the weighted sum of the records
\* with positive cPoints, with the level of that sum
calculateSparksFromCPoints(entries, nowWeek) ==
  LET counted == {e \in entries : e.totalCPoints > 0}
      weighted == SumOver(counted,
                          [e \in counted |->
                             e.totalCPoints
                               * calculateTimeWeight(e.processedAt, nowWeek)
                               * calculatePlatformWeight(e)])
      totalSparks == RoundDiv(weighted * calculateConsistencyBonus(entries), 1000)
  IN  [totalSparks |-> totalSparks, levelInfo |-> calculateLevelInfo(totalSparks)]

\* convertCPointsToSparks that converts an empty history like any other
convertCPointsToSparks_NoEmptyCheck(p, entries, nowWeek) ==
  LET sparksResult == calculateSparksFromCPoints(entries, nowWeek)
  IN  [result |-> sparksResult,
       profile |-> updateUserSparks(p, sparksResult.totalSparks)]

\* SparksService.convertCPointsToSparks over the records found (never more
\* than the 10 the query is limited to): what it returns and what it leaves
\* in user.wavzProfile
convertCPointsToSparks(p, entries, nowWeek) ==
  IF entries = {}
  THEN [result |-> createEmptyResult, profile |-> p]
  ELSE LET sparksResult == calculateSparksFromCPoints(entries, nowWeek)
       IN  [result |-> sparksResult,
            profile |-> updateUserSparks(p, sparksResult.totalSparks)]

(* ---- CPointsService of unnamed/part_003 ---- *)

\* the platform multiplier of calculateContentCPoints, in tenths
ContentMultiplier(platform) ==
  CASE toLowerCase(platform) = "youtube" -> 12
    [] toLowerCase(platform) = "tiktok" -> 10
    [] toLowerCase(platform) = "instagram" -> 11
    [] toLowerCase(platform) = "twitter" -> 9
    [] OTHER -> 10

\* calculateContentCPoints: the weighted engagement of one content item
\* times the platform multiplier
calculateContentCPoints(engagement) ==
  Rat((engagement.views + engagement.likes * 10 + engagement.comments * 20
       + engagement.shares * 30) * ContentMultiplier(engagement.platform),
      100)

\* calculateEngagementRate
calculateEngagementRate(engagement) ==
  IF engagement.views > 0
  THEN Rat((engagement.likes + engagement.comments + engagement.shares) * 100,
           engagement.views)
  ELSE Rat(0, 1)

\* the sum of a sequence of fractions
RECURSIVE RatSum(_)
RatSum(rs) == IF rs = <<>> THEN Rat(0, 1) ELSE RatAdd(Head(rs), RatSum(Tail(rs)))

\* the sum of a sequence of whole numbers
RECURSIVE SeqSum(_)
SeqSum(ns) == IF ns = <<>> THEN 0 ELSE Head(ns) + SeqSum(Tail(ns))

\* Math.min(100, a) of a non-negative a
AtMost100(a) == IF a.num > 100 * a.den THEN Rat(100, 1) ELSE a

\* assessQualityMetrics: consistency from the amount of content, growth from
\* the engagement rate of the content newer than Date.now() - 7 days,
\* interaction from the comments per view
assessQualityMetrics(rawEngagement, nowWeek) ==
  LET totalContent == Len(rawEngagement)
      recentContent ==
        SelectSeq(rawEngagement, LAMBDA e : 7 * e.timestamp > 7 * nowWeek - 7)
      rates == RatSum([i \in 1..Len(recentContent) |->
                         calculateEngagementRate(recentContent[i])])
      totalComments == SeqSum([i \in 1..Len(rawEngagement) |->
                                 rawEngagement[i].comments])
      totalViews == SeqSum([i \in 1..Len(rawEngagement) |->
                              rawEngagement[i].views])
  IN  [authenticity |-> Rat(75, 1),
       relevance |-> Rat(70, 1),
       consistency |-> AtMost100(Rat(totalContent * 100, 30)),
       growth |-> IF Len(recentContent) > 0
                  THEN AtMost100(Rat(rates.num * 2, rates.den * Len(recentContent)))
                  ELSE Rat(0, 1),
       interaction |-> IF totalViews > 0
                       THEN AtMost100(Rat(totalComments * 1000, totalViews))
                       ELSE Rat(50, 1)]

\* calculateCPointsFromEngagement for the content of one account: the rounded
\* base points times the quality score (the five metrics / 500), rounded
calculateCPointsFromEngagement(rawEngagement, nowWeek) ==
  LET baseCPoints ==
        RatRound(RatSum([i \in 1..Len(rawEngagement) |->
                           calculateContentCPoints(rawEngagement[i])]))
      q == assessQualityMetrics(rawEngagement, nowWeek)
      sum == RatAdd(q.authenticity,
               RatAdd(q.relevance,
                 RatAdd(q.consistency, RatAdd(q.growth, q.interaction))))
  IN  RoundDiv(baseCPoints * sum.num, sum.den * 500)

(***************************************************************************)
(* The period-keyed cPoints calculator: CPointsService of                  *)
(* backup_new_files/cpoints.service.ts with the CPointsHistory model of    *)
(* backup_new_files/CPointsHistory.ts. One user with one account.          *)
(***************************************************************************)
\* (periodStart, periodEnd) pairs the callers ask for
Periods == {"week1", "week2"}

\* rawData.platform and rawData.accountId of the account
CpPlatform == "youtube"
CpAccount == "acc1"

\* rawData.contentData and rawData.engagementMetrics the callers pass
RawInputs ==
  {[contentCount |-> 1, totalLikes |-> 2, totalComments |-> 1, totalViews |-> 100,
    totalShares |-> 0, totalSaves |-> 0, followerCount |-> 0, engagementRate |-> 0],
   [contentCount |-> 2, totalLikes |-> 10, totalComments |-> 1, totalViews |-> 100,
    totalShares |-> 0, totalSaves |-> 0, followerCount |-> 1000, engagementRate |-> 6]}

\* platformWeights of calculateCPoints, in tenths; 1.0 for any other platform
platformWeights ==
  [youtube |-> 12, instagram |-> 10, twitter |-> 8, tiktok |-> 11,
   spotify |-> 13, twitch |-> 10]

\* CPointsHistorySchema.methods.organizeEngagementData: engagementQuality
organizeEngagementData(raw) ==
  LET totalEngagement == raw.totalLikes + raw.totalComments + raw.totalViews
      engagementRate ==
        IF raw.followerCount > 0
        THEN Rat(totalEngagement * 100, raw.followerCount) ELSE Rat(0, 1)
      above5 == engagementRate.num > 5 * engagementRate.den
      above15 == engagementRate.num > 15 * engagementRate.den
      score == RatAdd(Rat(50 - (IF above15 THEN 25 ELSE 0), 1),
                      IF above5 THEN Rat(25, 1)
                      ELSE Rat(engagementRate.num * 5, engagementRate.den))
  IN  [authenticityScore |-> ClampPercent(score),
       consistencyScore |-> Min(100, raw.contentCount * 10),
       growthTrend |-> IF raw.engagementRate > 5 THEN "increasing"
                       ELSE IF raw.engagementRate > 2 THEN "stable"
                       ELSE "decreasing"]

\* CPointsHistorySchema.methods.calculateCPoints: finalCPoints =
\* Math.round(basePoints * qualityMultiplier * platformWeight
\*            + consistencyBonus + growthBonus)
calculateCPoints(raw, platform, engagementQuality) ==
  LET basePoints == raw.totalLikes * 100 + raw.totalComments * 300
                    + raw.totalViews + raw.totalShares * 200
                    + raw.totalSaves * 150 + raw.followerCount * 10
      quality == engagementQuality.authenticityScore
      platformWeight == IF platform \in DOMAIN platformWeights
                        THEN platformWeights[platform] ELSE 10
      weighted == Rat(basePoints * quality.num * platformWeight,
                      100 * quality.den * 100 * 10)
      consistencyBonus ==
        Rat(engagementQuality.consistencyScore * basePoints, 100 * 100 * 10)
      growthBonus == IF engagementQuality.growthTrend = "increasing"
                     THEN Rat(basePoints * 2, 100 * 10) ELSE Rat(0, 1)
  IN  RatRound(RatAdd(weighted, RatAdd(consistencyBonus, growthBonus)))

\* the document processEngagementData constructs for a period without record
NewHistory(id, period, raw) ==
  [id |-> id, period |-> period, platform |-> CpPlatform, accountId |-> CpAccount,
   rawEngagement |-> raw, cPointsAwarded |-> 0, status |-> "pending"]

\* CPointsHistorySchema.pre("save"): a new document, or one whose
\* rawEngagement was modified, is calculated and marked processed
HistoryPreSave(doc, isNew, rawModified) ==
  IF isNew \/ rawModified
  THEN [doc EXCEPT
          !.cPointsAwarded =
             calculateCPoints(doc.rawEngagement, doc.platform,
                              organizeEngagementData(doc.rawEngagement)),
          !.status = "processed"]
  ELSE doc

\* the fields of the unique index of CPointsHistorySchema (one user)
HistoryKey(doc) == <<doc.platform, doc.accountId, doc.period>>

\* callers of processEngagementData that may run concurrently
Processors == {"q1", "q2"}

\* what a call that has not returned has returned
NoResult == [status |-> "none", cPointsHistoryId |-> 0, cPointsAwarded |-> 0]

\* what a call that threw leaves its caller with
ErrorResult == [status |-> "error", cPointsHistoryId |-> 0, cPointsAwarded |-> 0]

\* CPointsService.formatResult
formatResult(cPointsHistory) ==
  [status |-> "ok", cPointsHistoryId |-> cPointsHistory.id,
   cPointsAwarded |-> cPointsHistory.cPointsAwarded]

\* a caller that has made no call
IdleProcessor ==
  [pc |-> "idle", period |-> "week1", raw |-> NoSnapshot, doc |-> NoSnapshot,
   isNew |-> FALSE, read |-> 0, result |-> NoResult]

(***************************************************************************)
(* The state of each part while another part is under test.                *)
(***************************************************************************)
LevelsIdle ==
  /\ profile = NewProfile
  /\ cpHistory = {}
  /\ week = 0
  /\ conv = NoSnapshot
  /\ info = NoSnapshot
  /\ adj = NoSnapshot
  /\ ops = 0

LevelFnIdle ==
  /\ lfIn = <<0, 0>>
  /\ lfOut = NoSnapshot
  /\ lfPc = "off"

CPointsIdle ==
  /\ cPoints = 0
  /\ history = {}
  /\ cp = [p \in Processors |-> IdleProcessor]
  /\ cpCalls = 0

DeterminismIdle ==
  /\ dtIn = NoSnapshot
  /\ dtOut = NoSnapshot
  /\ dtPc = "off"

\* a route request that has not begun
IdleRoute ==
  [pc |-> "idle", i |-> 1, contentCount |-> 0, currentMetrics |-> ZeroTotals,
   lastSnapshot |-> NoSnapshot, lookupFailed |-> FALSE, delta |-> NoSnapshot,
   deltaSparks |-> 0, platformResults |-> <<>>, deltaScores |-> <<>>,
   thrown |-> {}, faulted |-> FALSE, status |-> 0, begun |-> 0]

\* a getAllContentWithEngagements call that has not begun
IdlePager ==
  [pc |-> "off", offset |-> 0, allContent |-> 0, requests |-> <<>>,
   last |-> 0, largest |-> 0]

FlowIdle ==
  /\ rt = IdleRoute
  /\ pg = IdlePager

ScoreIdle ==
  LevelsIdle /\ LevelFnIdle /\ CPointsIdle /\ DeterminismIdle /\ FlowIdle

(***************************************************************************)
(* SpecDelta: the delta engine applied to bounded inputs.                  *)
(***************************************************************************)
InitDelta ==
  /\ fnCurrent \in MetricsInputs
  /\ fnPrevious \in {NoSnapshot} \cup
       {NewSnapshot("acc1", "youtube", m, calculateDelta(m, NoSnapshot), 0, 1, 0) :
          m \in MetricsUpTo(MaxPrevEngagement)}
  /\ fnPlatform \in Platforms
  /\ fnPc = "delta"
  /\ fnDelta = NoSnapshot
  /\ fnSparks = 0
  /\ SyncIdle
  /\ BeatsIdle
  /\ ScoreIdle

\* const delta = sparksService.calculateDelta(currentMetrics, lastSnapshot)
ComputeDelta ==
  /\ fnPc = "delta"
  /\ fnDelta' = calculateDelta(fnCurrent, fnPrevious)
  /\ fnPc' = "sparks"
  /\ UNCHANGED <<fnCurrent, fnPrevious, fnPlatform, fnSparks, syncVars, beatVars,
               scoreVars>>

\* const deltaSparks = sparksService.calculateSparksFromDelta(delta, platform)
ComputeSparks ==
  /\ fnPc = "sparks"
  /\ fnSparks' = calculateSparksFromDelta(fnDelta, fnPlatform)
  /\ fnPc' = "done"
  /\ UNCHANGED <<fnCurrent, fnPrevious, fnPlatform, fnDelta, syncVars, beatVars,
               scoreVars>>

NextDelta == ComputeDelta \/ ComputeSparks

SpecDelta == InitDelta /\ [][NextDelta]_vars

(***************************************************************************)
(* The platform (environment of the sync flow).                            *)
(***************************************************************************)
\* the creator publishes a content item
Publish(a) ==
  /\ content[a] < MaxContent
  /\ content' = [content EXCEPT ![a] = @ + 1]
  /\ UNCHANGED <<totals, snapshots, clock, req, fnVars, beatVars,
               scoreVars>>

\* the audience adds one unit of engagement to a metric of the account
Engage(a, f) ==
  /\ content[a] > 0
  /\ SumOver(TotalFields, totals[a]) < MaxEngagement
  /\ totals' = [totals EXCEPT ![a][f] = @ + 1]
  /\ UNCHANGED <<content, snapshots, clock, req, fnVars, beatVars,
               scoreVars>>

\* the platform revises a metric downward (removed content, bot filtering)
Revise(a, f) ==
  /\ totals[a][f] > 0
  /\ totals' = [totals EXCEPT ![a][f] = @ - 1]
  /\ UNCHANGED <<content, snapshots, clock, req, fnVars, beatVars,
               scoreVars>>

(***************************************************************************)
(* POST /calculate-sparks, one account per request.                        *)
(***************************************************************************)
\* the snapshots of one account
SnapshotsOf(a) == {s \in snapshots : s.accountId = a}

\* getLastSnapshot whose query matches no document of the account
getLastSnapshot_NoMatch(a) ==
  IF {s \in SnapshotsOf(a) : s.accountId # a} = {} THEN NoSnapshot
  ELSE CHOOSE s \in SnapshotsOf(a) : s.accountId # a

\* SparksService.getLastSnapshot: findOne({userId, accountId}) sorted by
\* syncedAt descending, null when the account has no snapshot
getLastSnapshot(a) ==
  IF SnapshotsOf(a) = {} THEN NoSnapshot
  ELSE CHOOSE s \in SnapshotsOf(a) :
         \A t \in SnapshotsOf(a) : t.syncedAt <= s.syncedAt

\* the syncs begun so far: persisted snapshots and requests in flight
SyncsBegun ==
  Cardinality(snapshots) + Cardinality({r \in Requests : req[r].pc # "idle"})

\* the route is entered for an active connected account and
\* allContent = await getAllContentWithEngagements(accountId) returns; an
\* account without content is skipped (continue), otherwise the totals are
\* aggregated
FetchContent(r, a) ==
  /\ req[r].pc = "idle"
  /\ SyncsBegun < MaxSyncs
  /\ IF content[a] = 0
     THEN req' = [req EXCEPT ![r] = IdleRequest]
     ELSE req' = [req EXCEPT ![r] = [IdleRequest EXCEPT
                                       !.pc = "getLast",
                                       !.account = a,
                                       !.contentCount = content[a],
                                       !.currentMetrics = totals[a]]]
  /\ UNCHANGED <<totals, content, snapshots, clock, fnVars, beatVars,
               scoreVars>>

\* lastSnapshot = await getLastSnapshot(...); then, without yielding,
\* calculateDelta, calculateSparksFromDelta and the construction of the
\* snapshot document (syncedAt: new Date()) inside saveSnapshot
ReadLastAndScore(r) ==
  /\ req[r].pc = "getLast"
  /\ LET a == req[r].account
         lastSnapshot == getLastSnapshot(a)
         delta == calculateDelta(req[r].currentMetrics, lastSnapshot)
         deltaSparks == calculateSparksFromDelta(delta, PlatformOf[a])
     IN  req' = [req EXCEPT
                   ![r].pc = "save",
                   ![r].pending =
                      NewSnapshot(a, PlatformOf[a], req[r].currentMetrics, delta,
                                  deltaSparks, req[r].contentCount, clock)]
  /\ clock' = clock + 1
  /\ UNCHANGED <<totals, content, snapshots, fnVars, beatVars,
               scoreVars>>

\* await snapshot.save() completes: the document is in the collection
SaveSnapshot(r) ==
  /\ req[r].pc = "save"
  /\ snapshots' = snapshots \cup {req[r].pending}
  /\ req' = [req EXCEPT ![r] = IdleRequest]
  /\ UNCHANGED <<totals, content, clock, fnVars, beatVars,
               scoreVars>>

\* the steps of request r
Sync(r) ==
  \/ \E a \in Accounts : FetchContent(r, a)
  \/ ReadLastAndScore(r)
  \/ SaveSnapshot(r)

InitSync ==
  /\ SyncIdle /\ FnIdle /\ BeatsIdle
  /\ ScoreIdle

(***************************************************************************)
(* SpecSeqSync: syncs of the account one after another, on a platform that *)
(* may also revise its totals downward.                                    *)
(***************************************************************************)
NextSeqSync ==
  \/ \E a \in Accounts : Publish(a)
  \/ \E a \in Accounts, f \in SyncFields : Engage(a, f)
  \/ \E a \in Accounts, f \in SyncFields : Revise(a, f)
  \/ Sync("r1")

SpecSeqSync == InitSync /\ [][NextSeqSync]_vars

(***************************************************************************)
(* SpecSync: two requests of the same user may overlap; the platform's     *)
(* counters only grow.                                                     *)
(***************************************************************************)
NextSync ==
  \/ \E a \in Accounts : Publish(a)
  \/ \E a \in Accounts, f \in SyncFields : Engage(a, f)
  \/ \E r \in Requests : Sync(r)

SpecSync == InitSync /\ [][NextSync]_vars

(***************************************************************************)
(* POST /calculate-sparks as a whole: one request walks every active       *)
(* connected account, skips or drops the accounts it cannot score, and     *)
(* then writes the user's Sparks. A store or computation failure is an     *)
(* input of the step it can happen in.                                     *)
(***************************************************************************)
\* number of route requests a run begins
MaxRouteSyncs == 2

\* req.user.insightIQ.connectedAccounts, in the order the loop visits them
RouteAccounts == <<"acc1", "acc2">>

\* account.platform of the connected accounts
RoutePlatformOf == [acc1 |-> "YouTube", acc2 |-> "instagram"]

\* account.followerCount of the connected accounts
FollowerCountOf == [acc1 |-> 0, acc2 |-> 1]

\* getLastSnapshot that answers a store error with the latest snapshot all
\* the same
getLastSnapshotCaught_Stale(a, storeError) == getLastSnapshot(a)

\* SparksService.getLastSnapshot with its try/catch: a store error is
\* logged and null is returned
getLastSnapshotCaught(a, storeError) ==
  IF storeError THEN NoSnapshot ELSE getLastSnapshot(a)

\* SparksService.calculatePlatformSparks(metrics) of the delta service, in
\* hundredths of a Spark
calculatePlatformSparks(metrics) ==
  LET platform == toLowerCase(metrics.platform)
  IN  IF platform \notin DOMAIN SPARKS_RATES
      THEN metrics.totalLikes * 100 + metrics.totalComments * 200
           + metrics.totalViews * 1
      ELSE LET rates == SPARKS_RATES[platform]
               totalSparks ==
                 CASE platform = "youtube" ->
                        metrics.totalLikes * rates.like
                        + metrics.totalDislikes * rates.dislike
                        + metrics.totalComments * rates.comment
                        + metrics.totalViews * rates.view
                        + metrics.totalWatchTime * rates.watchHour
                        + metrics.followerCount * rates.subscriber
                   [] platform = "instagram" ->
                        metrics.totalLikes * rates.like
                        + metrics.totalComments * rates.comment
                        + metrics.totalViews * rates.view
                        + metrics.totalSaves * rates.save
                        + metrics.totalShares * rates.share
                        + metrics.followerCount * rates.follower
                   [] platform = "twitter" ->
                        metrics.totalLikes * rates.like
                        + metrics.totalComments * rates.comment
                        + metrics.totalShares * rates.retweet
                        + metrics.totalImpressions * rates.impression
                        + metrics.followerCount * rates.follower
                   [] platform = "tiktok" ->
                        metrics.totalLikes * rates.like
                        + metrics.totalComments * rates.comment
                        + metrics.totalViews * rates.view
                        + metrics.totalShares * rates.share
                        + metrics.followerCount * rates.follower
                   [] platform = "spotify" ->
                        metrics.totalViews * rates.stream
                        + metrics.followerCount * rates.follower
           IN  100 * RoundDiv(totalSparks, 100)

\* SparksService.calculateTotalSparks(platformResults).totalSparks, in
\* hundredths of a Spark
calculateTotalSparks(platformResults) ==
  100 * RoundDiv(SeqSum(platformResults), 100)

\* the platformMetrics the route builds from the delta of an account
PlatformMetricsOf(a, delta) ==
  [platform |-> RoutePlatformOf[a],
   totalLikes |-> delta.likes, totalDislikes |-> delta.dislikes,
   totalComments |-> delta.comments, totalViews |-> delta.views,
   totalShares |-> delta.shares, totalSaves |-> delta.saves,
   totalWatchTime |-> delta.watchTime,
   totalImpressions |-> delta.impressions, totalReach |-> delta.reach,
   followerCount |-> FollowerCountOf[a]]

\* the account the loop is at
RtAccount == RouteAccounts[rt.i]

\* the loop moves to the next account ("continue" or the end of the body):
\* the constants of the body go out of scope; after the last account the
\* handler leaves the loop
NextAccount(r) ==
  [r EXCEPT !.i = @ + 1,
            !.pc = IF r.i + 1 > Len(RouteAccounts) THEN "respond" ELSE "fetch",
            !.contentCount = 0,
            !.currentMetrics = ZeroTotals,
            !.lastSnapshot = NoSnapshot,
            !.delta = NoSnapshot,
            !.deltaSparks = 0]

\* the request passes authentication and the integration checks and enters
\* the loop over the active connected accounts
RtBegin ==
  /\ rt.pc \in {"idle", "done"}
  /\ rt.begun < MaxRouteSyncs
  /\ rt' = [IdleRoute EXCEPT !.pc = "fetch", !.begun = rt.begun + 1]
  /\ UNCHANGED <<totals, content, snapshots, clock, req, pg, fnVars,
               beatVars, levelVars, levelFnVars, cpVars, detVars>>

\* allContent = await getAllContentWithEngagements(account.accountId): the
\* call throws (the account is dropped), returns nothing (the account is
\* skipped), or returns the content whose totals are aggregated
RtFetchContent(requestError) ==
  /\ rt.pc = "fetch"
  /\ LET a == RtAccount
     IN  IF requestError
         THEN rt' = [NextAccount(rt) EXCEPT !.faulted = TRUE]
         ELSE IF content[a] = 0
         THEN rt' = NextAccount(rt)
         ELSE rt' = [rt EXCEPT !.pc = "getLast",
                               !.contentCount = content[a],
                               !.currentMetrics = totals[a]]
  /\ UNCHANGED <<totals, content, snapshots, clock, req, pg, fnVars,
               beatVars, levelVars, levelFnVars, cpVars, detVars>>

\* lastSnapshot = await sparksService.getLastSnapshot(userId, accountId)
RtGetLastSnapshot(storeError) ==
  /\ rt.pc = "getLast"
  /\ rt' = [rt EXCEPT !.pc = "compute",
                      !.lookupFailed = storeError,
                      !.lastSnapshot = getLastSnapshotCaught(RtAccount, storeError)]
  /\ UNCHANGED <<totals, content, snapshots, clock, req, pg, fnVars,
               beatVars, levelVars, levelFnVars, cpVars, detVars>>

\* a delta or score computation that throws and whose snapshot is saved
\* all the same
RtComputeThrows_SavesAnyway ==
  /\ rt.pc = "compute"
  /\ rt' = [NextAccount(rt) EXCEPT !.thrown = @ \cup {RtAccount},
                                   !.faulted = TRUE]
  /\ snapshots' = snapshots \cup
       {NewSnapshot(RtAccount, RoutePlatformOf[RtAccount], rt.currentMetrics,
                    calculateDelta(rt.currentMetrics, NoSnapshot), 0,
                    rt.contentCount, clock)}
  /\ UNCHANGED <<totals, content, clock, req, pg, fnVars,
               beatVars, levelVars, levelFnVars, cpVars, detVars>>

\* calculateDelta or calculateSparksFromDelta throws: the account's catch
\* logs the error and the loop continues with the next account
RtComputeThrows ==
  /\ rt.pc = "compute"
  /\ rt' = [NextAccount(rt) EXCEPT !.thrown = @ \cup {RtAccount},
                                   !.faulted = TRUE]
  /\ UNCHANGED <<totals, content, snapshots, clock, req, pg, fnVars,
               beatVars, levelVars, levelFnVars, cpVars, detVars>>

\* delta = calculateDelta(currentMetrics, lastSnapshot);
\* deltaSparks = calculateSparksFromDelta(delta, account.platform)
RtComputeDelta ==
  /\ rt.pc = "compute"
  /\ LET delta == calculateDelta(rt.currentMetrics, rt.lastSnapshot)
     IN  rt' = [rt EXCEPT
                  !.pc = "save",
                  !.delta = delta,
                  !.deltaSparks =
                     calculateSparksFromDelta(delta, RoutePlatformOf[RtAccount])]
  /\ UNCHANGED <<totals, content, snapshots, clock, req, pg, fnVars,
               beatVars, levelVars, levelFnVars, cpVars, detVars>>

\* await sparksService.saveSnapshot(...): the store rejects the document
\* (saveSnapshot rethrows, the account is dropped), or the snapshot is
\* persisted and the account's platform result is computed from the delta
\* and pushed
RtSaveSnapshot(storeError) ==
  /\ rt.pc = "save"
  /\ LET a == RtAccount
     IN  IF storeError
         THEN /\ rt' = [NextAccount(rt) EXCEPT !.faulted = TRUE]
              /\ UNCHANGED <<snapshots, clock>>
         ELSE /\ snapshots' = snapshots \cup
                   {NewSnapshot(a, RoutePlatformOf[a], rt.currentMetrics,
                                rt.delta, rt.deltaSparks, rt.contentCount,
                                clock)}
              /\ clock' = clock + 1
              /\ rt' = [NextAccount(rt) EXCEPT
                          !.platformResults =
                             Append(@, calculatePlatformSparks(
                                         PlatformMetricsOf(a, rt.delta))),
                          !.deltaScores = Append(@, rt.deltaSparks)]
  /\ UNCHANGED <<totals, content, req, pg, fnVars,
               beatVars, levelVars, levelFnVars, cpVars, detVars>>

\* after the loop: without any platform result the response is 500;
\* otherwise calculateTotalSparks and updateUserSparksLegacy, whose store
\* error reaches the handler's catch (500), then the 200 response
RtRespond(storeError) ==
  /\ rt.pc = "respond"
  /\ IF rt.platformResults = <<>>
     THEN /\ rt' = [rt EXCEPT !.pc = "done", !.status = 500]
          /\ UNCHANGED profile
     ELSE IF storeError
     THEN /\ rt' = [rt EXCEPT !.pc = "done", !.status = 500, !.faulted = TRUE]
          /\ UNCHANGED profile
     ELSE /\ profile' =
               updateUserSparks(profile,
                                calculateTotalSparks(rt.platformResults) \div 100)
          /\ rt' = [rt EXCEPT !.pc = "done", !.status = 200]
  /\ UNCHANGED <<cpHistory, week, conv, info, adj, ops>>
  /\ UNCHANGED <<totals, content, snapshots, clock, req, pg, fnVars,
               beatVars, levelFnVars, cpVars, detVars>>

\* each connected account has no content or one content item, without
\* engagement yet; no request has run
InitRoute ==
  /\ totals = [a \in {"acc1", "acc2"} |-> ZeroTotals]
  /\ content \in [{"acc1", "acc2"} -> {0, 1}]
  /\ snapshots = {}
  /\ clock = 0
  /\ req = [r \in Requests |-> IdleRequest]
  /\ FnIdle /\ BeatsIdle
  /\ LevelsIdle /\ LevelFnIdle /\ CPointsIdle /\ DeterminismIdle /\ FlowIdle

\* between two requests the audience engages (a change made while a request
\* runs is read by that request or by the next one, as if it had been made
\* before or after it)
NextRoute ==
  \/ \E a \in {"acc1", "acc2"} :
       rt.pc \in {"idle", "done"} /\ Engage(a, "totalLikes")
  \/ RtBegin
  \/ \E requestError \in BOOLEAN : RtFetchContent(requestError)
  \/ \E storeError \in BOOLEAN : RtGetLastSnapshot(storeError)
  \/ RtComputeThrows
  \/ RtComputeDelta
  \/ \E storeError \in BOOLEAN : RtSaveSnapshot(storeError)
  \/ \E storeError \in BOOLEAN : RtRespond(storeError)

SpecRoute == InitRoute /\ [][NextRoute]_vars

(***************************************************************************)
(* InsightIQService.getAllContentWithEngagements: the paginated fetch of   *)
(* an account's content. Of the content only the number of items counts;   *)
(* the size of each page is the API's answer.                              *)
(***************************************************************************)
\* const limit = 100
PageLimit == 100

\* the safety limit: at 1000 collected items the loop stops
SafetyLimit == 1000

\* response.data.data.length of a page: empty, short, full, and pages of an
\* API that answers with more than the limit asked for
PageSizes == {0, 1, 50, 99, 100, 101, 150}

\* the call has initialised allContent = [], offset = 0, hasMore = true
InitPager ==
  /\ pg = [IdlePager EXCEPT !.pc = "loop"]
  /\ rt = IdleRoute
  /\ SyncIdle /\ FnIdle /\ BeatsIdle
  /\ LevelsIdle /\ LevelFnIdle /\ CPointsIdle /\ DeterminismIdle

\* a pass whose safety limit stops the loop only at twice as many items
PgRequestPage_LateSafetyLimit(size) ==
  /\ pg.pc = "loop"
  /\ LET allContent == pg.allContent + size
         hasMore ==
           size > 0 /\ ~(size < PageLimit) /\ ~(allContent >= 2 * SafetyLimit)
     IN  pg' = [pc |-> IF hasMore THEN "loop" ELSE "returned",
                offset |-> IF size > 0 THEN pg.offset + PageLimit ELSE pg.offset,
                allContent |-> allContent,
                requests |-> Append(pg.requests, pg.offset),
                last |-> size,
                largest |-> Max(pg.largest, size)]
  /\ UNCHANGED <<rt, fnVars, syncVars, beatVars, levelVars, levelFnVars,
               cpVars, detVars>>

\* one pass of the while loop whose request answers with a page of the
\* given size: the items are pushed and offset advances unless the page is
\* empty; hasMore falls on an empty page, on a page shorter than the limit
\* and once the safety limit is reached, and the call returns allContent
PgRequestPage(size) ==
  /\ pg.pc = "loop"
  /\ LET allContent == pg.allContent + size
         hasMore == size > 0 /\ ~(size < PageLimit) /\ ~(allContent >= SafetyLimit)
     IN  pg' = [pc |-> IF hasMore THEN "loop" ELSE "returned",
                offset |-> IF size > 0 THEN pg.offset + PageLimit ELSE pg.offset,
                allContent |-> allContent,
                requests |-> Append(pg.requests, pg.offset),
                last |-> size,
                largest |-> Max(pg.largest, size)]
  /\ UNCHANGED <<rt, fnVars, syncVars, beatVars, levelVars, levelFnVars,
               cpVars, detVars>>

\* the request of a pass fails: the catch logs the error and throws
\* "Failed to retrieve all content"
PgRequestFails ==
  /\ pg.pc = "loop"
  /\ pg' = [pg EXCEPT !.pc = "thrown",
                      !.requests = Append(@, pg.offset)]
  /\ UNCHANGED <<rt, fnVars, syncVars, beatVars, levelVars, levelFnVars,
               cpVars, detVars>>

NextPager ==
  \/ \E size \in PageSizes : PgRequestPage(size)
  \/ PgRequestFails

\* every request is answered or fails (the HTTP client has a timeout), so a
\* call that can take a pass takes it
SpecPager == InitPager /\ [][NextPager]_vars /\ WF_vars(NextPager)

(***************************************************************************)
(* BeatsService calls.                                                     *)
(***************************************************************************)
\* the wall clock passes to the next millisecond
Tick ==
  /\ now < MaxNow
  /\ now' = now + 1
  /\ UNCHANGED <<impl, beats, user, minted, cb, calls, fnVars, syncVars,
               scoreVars>>

(* ---- backup service: backup_new_files/beats.service.ts ---- *)

\* createBeat up to the duplicate check: the cPoints record is looked up,
\* sparksInherited is derived, Beat.findOne looks for a Beat of the content
BackupCreateCheck(p, contentId, sparksInheritance, historyId) ==
  /\ impl = "backup"
  /\ cb[p].pc = "idle"
  /\ calls < MaxCalls
  /\ calls' = calls + 1
  /\ LET started == IdleCreator
         sparksInherited ==
           IF sparksInheritance = 0
           THEN 1000 * RoundDiv(CPointsHistories[historyId] * 60, 100)
           ELSE sparksInheritance
         existingBeat ==
           {b \in beats : ContentKey(b) = <<BeatPlatform, contentId>>}
     IN  cb' = [cb EXCEPT ![p] =
           IF historyId \notin DOMAIN CPointsHistories
           THEN [started EXCEPT !.result = "historyNotFound"]
           ELSE IF existingBeat # {}
           THEN [started EXCEPT !.result = "duplicate"]
           ELSE [started EXCEPT
                   !.pc = "save",
                   !.doc = BackupNewBeat(contentId, sparksInherited, now)]]
  /\ UNCHANGED <<impl, beats, user, now, minted, fnVars, syncVars,
               scoreVars>>

\* await beat.save(): the pre-save hook names and values the Beat; the
\* unique index on beatId rejects a second Beat of the same millisecond
BackupCreateSave(p) ==
  /\ impl = "backup"
  /\ cb[p].pc = "save"
  /\ LET saved == BackupPreSave(cb[p].doc, TRUE, FALSE, now)
     IN  IF \E b \in beats : b.beatId = saved.beatId
         THEN /\ cb' = [cb EXCEPT ![p].pc = "idle", ![p].result = "duplicateKey",
                                  ![p].doc = NoSnapshot]
              /\ beats' = beats
         ELSE /\ cb' = [cb EXCEPT ![p].pc = "stats", ![p].doc = saved]
              /\ beats' = beats \cup {saved}
  /\ UNCHANGED <<impl, user, now, minted, calls, fnVars, syncVars,
               scoreVars>>

\* await this.updateUserBeatStats(input.userId, beat), then the Beat is returned
BackupCreateStats(p) ==
  /\ impl = "backup"
  /\ cb[p].pc = "stats"
  /\ user' = BackupUserBeatStats(user, cb[p].doc, now)
  /\ cb' = [cb EXCEPT ![p].pc = "idle", ![p].result = "created",
                      ![p].doc = NoSnapshot]
  /\ UNCHANGED <<impl, beats, now, minted, calls, fnVars, syncVars,
               scoreVars>>

\* updateBeatEngagement: the model's updateEngagement, then the Beat is
\* marked trending once finalValue >= 1.5 * initialValue
BackupUpdateBeatEngagement(id, newMetrics) ==
  /\ impl = "backup"
  /\ calls < MaxCalls
  /\ calls' = calls + 1
  /\ \E b \in beats : b.beatId = id
  /\ LET beat == BeatById(id)
         updated == BackupUpdateEngagement(beat, newMetrics)
         marked ==
           IF 2 * updated.finalValue >= 3 * updated.performance.initialValue
              /\ ~updated.performance.trending
           THEN [updated EXCEPT !.performance.trending = TRUE]
           ELSE updated
     IN  beats' = (beats \ {beat}) \cup {marked}
  /\ UNCHANGED <<impl, user, now, minted, cb, fnVars, syncVars,
               scoreVars>>

\* addOnChainProof: the model's addOnChainProof, then updateUserProofStats
BackupAddOnChainProof(id, proofType) ==
  /\ impl = "backup"
  /\ calls < MaxCalls
  /\ calls' = calls + 1
  /\ \E b \in beats : b.beatId = id
  /\ LET beat == BeatById(id)
     IN  beats' = (beats \ {beat}) \cup {BackupAddProof(beat, proofType, now)}
  /\ user' = [user EXCEPT !.proofStats[proofType] = @ + 1]
  /\ UNCHANGED <<impl, now, minted, cb, fnVars, syncVars,
               scoreVars>>

(* ---- live service: BeatsService of unnamed/part_002 ---- *)

\* createBeat: the amount is validated against the user's Sparks, the Beat
\* is saved, the user's Beat statistics are recomputed
LiveCreateBeat(p, contentId, sparksAmount) ==
  /\ impl = "live"
  /\ cb[p].pc = "idle"
  /\ calls < MaxCalls
  /\ calls' = calls + 1
  /\ LET started == IdleCreator
         beat == LiveNewBeat(<<"beat", minted + 1>>, contentId, sparksAmount, now)
     IN  IF sparksAmount <= 0
         THEN /\ cb' = [cb EXCEPT ![p] = [started EXCEPT !.result = "invalidAmount"]]
              /\ UNCHANGED <<beats, user, minted>>
         ELSE IF user.sparks < sparksAmount
         THEN /\ cb' = [cb EXCEPT ![p] = [started EXCEPT !.result = "insufficient"]]
              /\ UNCHANGED <<beats, user, minted>>
         ELSE /\ cb' = [cb EXCEPT ![p] = [started EXCEPT !.result = "created"]]
              /\ minted' = minted + 1
              /\ beats' = beats \cup {beat}
              /\ user' = LiveUserBeatStats(user, beats \cup {beat}, beat)
  /\ UNCHANGED <<impl, now, fnVars, syncVars,
               scoreVars>>

\* updateBeatPerformance: the model's updatePerformance, save, statistics
LiveUpdateBeatPerformance(id, performanceData) ==
  /\ impl = "live"
  /\ calls < MaxCalls
  /\ calls' = calls + 1
  /\ \E b \in beats : b.beatId = id
  /\ LET beat == BeatById(id)
         updated == LiveUpdatePerformance(beat, performanceData)
         allBeats == (beats \ {beat}) \cup {updated}
     IN  /\ beats' = allBeats
         /\ user' = LiveUserBeatStats(user, allBeats, updated)
  /\ UNCHANGED <<impl, now, minted, cb, fnVars, syncVars,
               scoreVars>>

\* addOnChainProof: the model's addOnChainProof, save, then the user's proof
\* counter and beatsValue are increased
LiveAddOnChainProof(id, proofType) ==
  /\ impl = "live"
  /\ calls < MaxCalls
  /\ calls' = calls + 1
  /\ \E b \in beats : b.beatId = id
  /\ LET beat == BeatById(id)
         proved == LiveAddProof(beat, proofType, now)
     IN  /\ beats' = (beats \ {beat}) \cup {proved}
         /\ user' = [user EXCEPT
                       !.proofStats[proofType] = @ + 1,
                       !.beatsValue = @ + (proved.finalValue - proved.sparksInherited)]
  /\ UNCHANGED <<impl, now, minted, cb, fnVars, syncVars,
               scoreVars>>

\* deleteBeat of the Beat's owner: Beat.deleteOne, then the user's Beat
\* statistics are recomputed from the Beats that are left
LiveDeleteBeat(id) ==
  /\ impl = "live"
  /\ calls < MaxCalls
  /\ calls' = calls + 1
  /\ \E b \in beats : b.beatId = id
  /\ LET beat == BeatById(id)
         allBeats == beats \ {beat}
     IN  /\ beats' = allBeats
         /\ user' = LiveUserBeatStats(user, allBeats, beat)
  /\ UNCHANGED <<impl, now, minted, cb, fnVars, syncVars,
               scoreVars>>

\* the beatIds in the collection
BeatIds == {b.beatId : b \in beats}

\* an onchain proof is added to a Beat
AddOnChainProof(id, proofType) ==
  \/ BackupAddOnChainProof(id, proofType)
  \/ LiveAddOnChainProof(id, proofType)

(***************************************************************************)
(* SpecBeats: the calls of one deployed BeatsService, createBeat calls of  *)
(* two callers interleaving.                                               *)
(***************************************************************************)
InitBeats ==
  /\ impl \in {"backup", "live"}
  /\ beats = {}
  /\ user = NewUser
  /\ now = 0
  /\ minted = 0
  /\ cb = [p \in Creators |-> IdleCreator]
  /\ calls = 0
  /\ SyncIdle
  /\ FnIdle
  /\ ScoreIdle

NextBeats ==
  \/ Tick
  \/ \E p \in Creators, c \in ContentIds, s \in SparksInheritanceInputs,
        h \in HistoryInputs :
       BackupCreateCheck(p, c, s, h)
  \/ \E p \in Creators : BackupCreateSave(p)
  \/ \E p \in Creators : BackupCreateStats(p)
  \/ \E id \in BeatIds, m \in EngagementInputs : BackupUpdateBeatEngagement(id, m)
  \/ \E id \in BeatIds, proofType \in ProofInputs :
       BackupAddOnChainProof(id, proofType)
  \/ \E p \in Creators, c \in ContentIds, s \in SparksAmountInputs :
       LiveCreateBeat(p, c, s)
  \/ \E id \in BeatIds, m \in EngagementInputs : LiveUpdateBeatPerformance(id, m)
  \/ \E id \in BeatIds, proofType \in ProofInputs :
       LiveAddOnChainProof(id, proofType)
  \/ \E id \in BeatIds : LiveDeleteBeat(id)

SpecBeats == InitBeats /\ [][NextBeats]_vars

(***************************************************************************)
(* Properties of the delta engine and of the sync flow.                    *)
(***************************************************************************)
\* the sum of deltaFromPrevious[d] over the snapshots of account a
SumDelta(a, d) ==
  SumOver(SnapshotsOf(a), [s \in SnapshotsOf(a) |-> s.deltaFromPrevious[d]])

\* the totals persisted for account a never decrease from sync to sync
TotalsNeverDecrease(a) ==
  \A s, t \in SnapshotsOf(a) :
    s.syncedAt < t.syncedAt =>
      \A f \in TotalFields : s.snapshot[f] <= t.snapshot[f]

\* the snapshot of account a that was synced last
LatestSnapshot(a) ==
  CHOOSE s \in SnapshotsOf(a) : \A t \in SnapshotsOf(a) : t.syncedAt <= s.syncedAt

C2_DeltaIsClampedDifference ==
  fnPc \in {"sparks", "done"} =>
    /\ \A d \in DeltaFields : fnDelta[d] >= 0
    /\ fnPrevious # NoSnapshot =>
         \A d \in DeltaFields :
           LET cur == fnCurrent[TotalOf[d]]
               prev == fnPrevious.snapshot[TotalOf[d]]
           IN  /\ cur >= prev => fnDelta[d] = cur - prev
               /\ cur < prev => fnDelta[d] = 0

\* C2 witness: one total went down and was clamped, another went up
C2_Witness ==
  /\ fnPc = "done"
  /\ fnPrevious # NoSnapshot
  /\ fnCurrent.totalLikes < fnPrevious.snapshot.totalLikes
  /\ fnDelta.likes = 0
  /\ fnCurrent.totalViews > fnPrevious.snapshot.totalViews
  /\ fnDelta.views > 0

\* C3: without a previous snapshot the delta is the whole current total of
\* every metric.
C3_FirstSyncCountsEverything ==
  (fnPc \in {"sparks", "done"} /\ fnPrevious = NoSnapshot) =>
    \A d \in DeltaFields : fnDelta[d] = fnCurrent[TotalOf[d]]

\* C3 witness: a first sync of an account that has likes
C3_Witness ==
  /\ fnPc = "done"
  /\ fnPrevious = NoSnapshot
  /\ fnCurrent.totalLikes > 0
  /\ fnDelta.likes = fnCurrent.totalLikes

\* the units of metric d that snapshot s counted as new: (CountedFrom, CountedTo]
CountedFrom(s, d) == s.snapshot[TotalOf[d]] - s.deltaFromPrevious[d]
CountedTo(s, d) == s.snapshot[TotalOf[d]]

\* C4: no two snapshots of one account count the same unit of engagement of
\* a growing counter as new, however the requests interleave.
C4_IncreaseAppliedAtMostOnce ==
  \A s, t \in snapshots :
    (s # t /\ s.accountId = t.accountId) =>
      \A d \in DeltaFields :
        Max(CountedFrom(s, d), CountedFrom(t, d))
          >= Min(CountedTo(s, d), CountedTo(t, d))

\* C5: the score of a delta without negative components is never negative.
C5_ScoreNeverNegative ==
  (fnPc = "done" /\ \A d \in DeltaFields : fnDelta[d] >= 0) => fnSparks >= 0

(***************************************************************************)
(* Properties of the Beats.                                                *)
(***************************************************************************)
\* C6: every stored Beat is worth at least the Sparks it inherited, after
\* creation and after any updates of its engagement and any proofs.
C6_ValueNeverBelowInherited ==
  \A b \in beats : b.finalValue >= b.sparksInherited

\* C7: adding to a Beat a proof the Beat already holds leaves the Beat as it
\* was: the same flags, the same finalValue, the same stamps.
C7_ProofIdempotent ==
  [][\A id \in BeatIds, proofType \in ProofInputs :
       (AddOnChainProof(id, proofType) /\ BeatById(id).onchainActions[proofType])
         => BeatById(id) \in beats']_vars

\* a createBeat call of caller p for content c that passes the checks made
\* before the duplicate check
ValidCreateCall(p, c) ==
  \/ \E s \in SparksInheritanceInputs, h \in DOMAIN CPointsHistories :
       BackupCreateCheck(p, c, s, h)
  \/ \E s \in SparksAmountInputs :
       s > 0 /\ s <= user.sparks /\ LiveCreateBeat(p, c, s)

\* C8: a createBeat call for content that already has a Beat is rejected as
\* a duplicate, stores no Beat and leaves the user's aggregates alone.
C8_DuplicateRejected ==
  [][\A p \in Creators, c \in ContentIds :
       (ValidCreateCall(p, c)
        /\ \E b \in beats : ContentKey(b) = <<BeatPlatform, c>>)
         => /\ cb'[p].result = "duplicate"
            /\ beats' = beats
            /\ user' = user]_vars

\* C9: under the service that checks for an existing Beat before saving, no
\* two Beats are attributed to the same content, however createBeat calls
\* interleave.
C9_OneBeatPerContent ==
  impl = "backup" =>
    \A b, c \in beats : ContentKey(b) = ContentKey(c) => b = c

\* C10: no step lowers the peakValue of a Beat, and after every step the
\* peakValue of every Beat is at least its current value.
C10_PeakNeverDecreases ==
  [][impl = "backup" =>
       /\ \A b \in beats : \A c \in beats' :
            c.beatId = b.beatId
              => c.performance.peakValue >= b.performance.peakValue
       /\ \A c \in beats' :
            c.performance.peakValue >= c.performance.currentValue]_vars

\* C10 witness: a Beat whose engagement was reported and whose proofs raised
\* its peak above the value it started with
C10_Witness ==
  /\ impl = "backup"
  /\ \E b \in beats :
       /\ b.performance.peakValue > b.performance.initialValue
       /\ b.metadata.engagementMetrics # ZeroEngagement


(***************************************************************************)
(* SpecLevelFn: calculateLevelInfo applied to two Sparks amounts.          *)
(***************************************************************************)
\* Sparks amounts around every threshold, with a negative one
SparksSamples ==
  {-1, 0, 1, 999, 1000, 3000, 4999, 5000, 14999, 15000, 49999, 50000, 60000}

InitLevelFn ==
  /\ lfIn \in SparksSamples \X SparksSamples
  /\ lfOut = NoSnapshot
  /\ lfPc = "call"
  /\ FnIdle /\ SyncIdle /\ BeatsIdle
  /\ LevelsIdle /\ CPointsIdle /\ DeterminismIdle /\ FlowIdle

\* this.calculateLevelInfo(sparks), for each of the two amounts
ApplyLevelInfo ==
  /\ lfPc = "call"
  /\ lfOut' = <<calculateLevelInfo(lfIn[1]), calculateLevelInfo(lfIn[2])>>
  /\ lfPc' = "done"
  /\ UNCHANGED <<lfIn, fnVars, syncVars, beatVars, levelVars, cpVars, detVars, flowVars>>

NextLevelFn ==
  \/ ApplyLevelInfo

SpecLevelFn == InitLevelFn /\ [][NextLevelFn]_vars

\* C12: calculateLevelInfo is monotone: of two Sparks amounts the larger one
\* never gets the lower level; and every level it returns is one of 1..5.
C12_LevelMonotone ==
  lfPc = "done" =>
    /\ lfOut[1].currentLevel \in 1..5
    /\ lfOut[2].currentLevel \in 1..5
    /\ lfIn[1] <= lfIn[2] => lfOut[1].currentLevel <= lfOut[2].currentLevel

\* two amounts on the two sides of a threshold get two different levels
C12_Witness ==
  /\ lfPc = "done"
  /\ lfIn[1] < lfIn[2]
  /\ lfOut[1].currentLevel < lfOut[2].currentLevel


(***************************************************************************)
(* SpecLevels: one user whose Sparks, level and levelProgress are written  *)
(* by the cPoints -> Sparks conversion, adjustSparks, the delta flow's     *)
(* updateUserSparks and the onboarding routes, while weeks pass.           *)
(***************************************************************************)
\* calls made in a behaviour
MaxOps == 4

\* weeks that pass in a behaviour
MaxWeeks == 2

\* the content InsightIQ returns for the user's account
ContentInputs ==
  {<<>>,
   <<[platform |-> "youtube", views |-> 30000, likes |-> 1000, comments |-> 100,
      shares |-> 0, timestamp |-> 0]>>}

\* adjustment arguments of adjustSparks
Adjustments == {-2000, 50000}

\* totals calculateTotalSparks hands to the delta flow's updateUserSparks
TotalInputs == {-10, 1000}

\* amounts POST /onboarding/sparks accepts (1..10000)
AwardAmounts == {1, 10000}

InitLevels ==
  /\ LevelsIdle
  /\ FnIdle /\ SyncIdle /\ BeatsIdle
  /\ LevelFnIdle /\ CPointsIdle /\ DeterminismIdle /\ FlowIdle

\* CPointsService.processEngagementToCPoints: a CPointsHistory record of the
\* content is saved and user.wavzProfile.cPoints is set to its total
ProcessEngagementToCPoints(rawEngagement) ==
  /\ ops < MaxOps
  /\ LET totalCPoints == calculateCPointsFromEngagement(rawEngagement, week)
     IN  /\ cpHistory' = cpHistory \cup
              {[id |-> ops + 1, totalCPoints |-> totalCPoints, processedAt |-> week,
                platform |-> "youtube", contentCount |-> Len(rawEngagement)]}
         /\ profile' = [profile EXCEPT !.cPoints = totalCPoints]
  /\ ops' = ops + 1
  /\ UNCHANGED <<week, conv, info, adj, fnVars, syncVars, beatVars,
                 levelFnVars, cpVars, detVars, flowVars>>

\* SparksService.convertCPointsToSparks
ConvertCPointsToSparks ==
  /\ ops < MaxOps
  /\ LET done == convertCPointsToSparks(profile, cpHistory, week)
     IN  /\ conv' = done.result
         /\ profile' = done.profile
  /\ ops' = ops + 1
  /\ UNCHANGED <<cpHistory, week, info, adj, fnVars, syncVars, beatVars,
                 levelFnVars, cpVars, detVars, flowVars>>

\* SparksService.adjustSparks(userId, adjustment, reason)
AdjustSparks(adjustment) ==
  /\ ops < MaxOps
  /\ profile' = adjustSparks(profile, adjustment)
  /\ adj' = [adjustment |-> adjustment, oldLevel |-> profile.level,
             newTotal |-> profile'.sparks,
             levelChange |-> profile.level # profile'.level]
  /\ ops' = ops + 1
  /\ UNCHANGED <<cpHistory, week, conv, info, fnVars, syncVars, beatVars,
                 levelFnVars, cpVars, detVars, flowVars>>

\* SparksService.updateUserSparks of the delta flow (POST /calculate-sparks)
UpdateUserSparksFromTotal(totalSparks) ==
  /\ ops < MaxOps
  /\ profile' = updateUserSparksFromTotal(profile, totalSparks)
  /\ ops' = ops + 1
  /\ UNCHANGED <<cpHistory, week, conv, info, adj, fnVars, syncVars, beatVars,
                 levelFnVars, cpVars, detVars, flowVars>>

\* POST /onboarding/role with role "creator": the starting bonus
CompleteOnboarding ==
  /\ ops < MaxOps
  /\ profile' = [profile EXCEPT !.sparks = 100]
  /\ ops' = ops + 1
  /\ UNCHANGED <<cpHistory, week, conv, info, adj, fnVars, syncVars, beatVars,
                 levelFnVars, cpVars, detVars, flowVars>>

\* POST /onboarding/sparks: user.save() rejects a profile the schema
\* validators do not accept, and the route answers 500
AwardSparks(amount) ==
  /\ ops < MaxOps
  /\ profile' = IF ValidProfile(awardSparks(profile, amount))
                THEN awardSparks(profile, amount) ELSE profile
  /\ ops' = ops + 1
  /\ UNCHANGED <<cpHistory, week, conv, info, adj, fnVars, syncVars, beatVars,
                 levelFnVars, cpVars, detVars, flowVars>>

\* SparksService.getUserSparksInfo
GetUserSparksInfo ==
  /\ ops < MaxOps
  /\ LET levelInfo == calculateLevelInfo(profile.sparks)
     IN  info' = [sparks |-> profile.sparks, level |-> levelInfo.currentLevel,
                  progress |-> levelInfo.progress,
                  nextLevelAt |-> levelInfo.nextLevelAt]
  /\ ops' = ops + 1
  /\ UNCHANGED <<profile, cpHistory, week, conv, adj, fnVars, syncVars, beatVars,
                 levelFnVars, cpVars, detVars, flowVars>>

\* a week passes
PassWeek ==
  /\ week < MaxWeeks
  /\ week' = week + 1
  /\ UNCHANGED <<profile, cpHistory, conv, info, adj, ops, fnVars, syncVars,
                 beatVars, levelFnVars, cpVars, detVars, flowVars>>

NextLevels ==
  \/ \E rawEngagement \in ContentInputs : ProcessEngagementToCPoints(rawEngagement)
  \/ ConvertCPointsToSparks
  \/ \E adjustment \in Adjustments : AdjustSparks(adjustment)
  \/ \E totalSparks \in TotalInputs : UpdateUserSparksFromTotal(totalSparks)
  \/ CompleteOnboarding
  \/ \E amount \in AwardAmounts : AwardSparks(amount)
  \/ GetUserSparksInfo
  \/ PassWeek

SpecLevels == InitLevels /\ [][NextLevels]_vars

\* the level the thresholds 0, 1000, 5000, 15000, 50000 give a Sparks amount
LevelOf(sparks) ==
  IF sparks >= 50000 THEN 5
  ELSE IF sparks >= 15000 THEN 4
  ELSE IF sparks >= 5000 THEN 3
  ELSE IF sparks >= 1000 THEN 2
  ELSE 1

\* C11: in every reachable state the stored level is the highest level whose
\* threshold the stored sparks reach, and the stored levelProgress is the
\* (rounded) progress of that same sparks value within that level.
C11_LevelFollowsSparks ==
  /\ profile.level = LevelOf(profile.sparks)
  /\ profile.levelProgress =
       IF profile.level = 5 THEN 100
       ELSE Min(100, Max(0,
              RoundDiv((profile.sparks - LEVEL_THRESHOLDS[profile.level]) * 100,
                       LEVEL_THRESHOLDS[profile.level + 1]
                         - LEVEL_THRESHOLDS[profile.level])))


\* C13 as stated: across sparks conversions and adjustSparks calls the stored
\* level after the operation is never below the stored level before it.
C13_LevelNeverDecreases ==
  [][(ConvertCPointsToSparks \/ \E adjustment \in Adjustments : AdjustSparks(adjustment))
       => profile'.level >= profile.level]_vars

\* C13: after each sparks conversion over a non-empty history and each
\* adjustSparks call the stored level is the highest level whose threshold
\* the newly stored sparks reach; so it is at least the level before exactly
\* when the new sparks reach that level's threshold, and lower otherwise.
C13_LevelFollowsNewSparks ==
  [][((ConvertCPointsToSparks /\ cpHistory # {})
        \/ \E adjustment \in Adjustments : AdjustSparks(adjustment))
       => /\ profile'.level = LevelOf(profile'.sparks)
          /\ (profile'.level >= profile.level
                <=> profile'.sparks >= LEVEL_THRESHOLDS[profile.level])]_vars

\* an adjustSparks call with a negative adjustment has lowered the level
C13_Witness ==
  /\ adj # NoSnapshot
  /\ adj.adjustment < 0
  /\ adj.levelChange
  /\ profile.sparks = adj.newTotal
  /\ profile.level < adj.oldLevel

\* C14: the progress calculated for sparks >= 0 is
\* 100 * (sparks - threshold[level]) / (threshold[level+1] - threshold[level])
\* clamped to [0, 100], and 100 at level 5; the stored levelProgress is
\* always within 0..100.
C14_ProgressFormula ==
  /\ profile.levelProgress \in 0..100
  /\ (info # NoSnapshot /\ info.sparks >= 0) =>
       LET level == LevelOf(info.sparks)
           gained == 100 * (info.sparks - LEVEL_THRESHOLDS[level])
           span == IF level < 5
                   THEN LEVEL_THRESHOLDS[level + 1] - LEVEL_THRESHOLDS[level]
                   ELSE 1
       IN  IF level = 5 \/ gained > 100 * span
           THEN info.progress.num = 100 * info.progress.den
           ELSE IF gained < 0 THEN info.progress.num = 0
           ELSE info.progress.num * span = gained * info.progress.den

\* getUserSparksInfo has reported a progress strictly inside a level and the
\* stored progress is not zero
C14_Witness ==
  /\ info # NoSnapshot
  /\ info.sparks > 0
  /\ info.level \in 2..4
  /\ info.progress.num > 0
  /\ info.progress.num < 100 * info.progress.den
  /\ profile.levelProgress > 0

\* C15: convertCPointsToSparks for a user without CPointsHistory returns
\* totalSparks 0, level 1 and progress 0, and leaves the stored sparks, level
\* and levelProgress as they were.
C15_EmptyHistoryZeroResult ==
  [][(ConvertCPointsToSparks /\ cpHistory = {})
       => /\ conv'.totalSparks = 0
          /\ conv'.levelInfo.currentLevel = 1
          /\ conv'.levelInfo.progress.num = 0
          /\ profile' = profile]_vars

\* a conversion without history has returned the zero result for a user who
\* has Sparks
C15_Witness ==
  /\ conv # NoSnapshot
  /\ cpHistory = {}
  /\ conv.totalSparks = 0
  /\ conv.levelInfo.currentLevel = 1
  /\ profile.sparks > 0


(***************************************************************************)
(* SpecCPoints: processEngagementData calls of two callers for one user    *)
(* and one account, interleaved at every await, with the user update able  *)
(* to fail.                                                                *)
(***************************************************************************)
\* processEngagementData calls made in a behaviour
MaxCpCalls == 3

InitCPoints ==
  /\ CPointsIdle
  /\ FnIdle /\ SyncIdle /\ BeatsIdle
  /\ LevelsIdle /\ LevelFnIdle /\ DeterminismIdle /\ FlowIdle

\* the records CPointsHistory.findOne can return for a period
ExistingFor(period) ==
  {h \in history : HistoryKey(h) = <<CpPlatform, CpAccount, period>>}

\* processEngagementData up to cPointsHistory.save(): findOne, the early
\* return for a record that is not pending, and the document to save
CpFind(p, period, raw) ==
  /\ cp[p].pc = "idle"
  /\ cpCalls < MaxCpCalls
  /\ cpCalls' = cpCalls + 1
  /\ LET existing == ExistingFor(period)
     IN  IF \E h \in existing : h.status # "pending"
         THEN cp' = [cp EXCEPT ![p] =
                [IdleProcessor EXCEPT
                   !.period = period, !.raw = raw,
                   !.result = formatResult(CHOOSE h \in existing : h.status # "pending")]]
         ELSE cp' = [cp EXCEPT ![p] =
                [pc |-> "save", period |-> period, raw |-> raw,
                 doc |-> IF existing # {} THEN CHOOSE h \in existing : TRUE
                         ELSE NewHistory(cpCalls + 1, period, raw),
                 isNew |-> existing = {}, read |-> 0, result |-> NoResult]]
  /\ UNCHANGED <<cPoints, history, fnVars, syncVars, beatVars, levelVars,
                 levelFnVars, detVars, flowVars>>

\* await cPointsHistory.save(): the pre-save hook, then the insert, which the
\* unique index rejects when the period has a record by now (the call throws)
CpSave(p) ==
  /\ cp[p].pc = "save"
  /\ LET saved == HistoryPreSave(cp[p].doc, cp[p].isNew, FALSE)
     IN  IF cp[p].isNew /\ \E h \in history : HistoryKey(h) = HistoryKey(saved)
         THEN /\ cp' = [cp EXCEPT ![p] =
                     [IdleProcessor EXCEPT !.period = cp[p].period,
                                           !.raw = cp[p].raw,
                                           !.result = ErrorResult]]
              /\ UNCHANGED history
         ELSE /\ history' = {h \in history : h.id # saved.id} \cup {saved}
              /\ cp' = [cp EXCEPT ![p].doc = saved, ![p].pc = "readUser"]
  /\ UNCHANGED <<cPoints, cpCalls, fnVars, syncVars, beatVars, levelVars,
                 levelFnVars, detVars, flowVars>>

\* updateUserCPoints: const user = await User.findById(userId)
CpReadUser(p) ==
  /\ cp[p].pc = "readUser"
  /\ cp' = [cp EXCEPT ![p].read = cPoints, ![p].pc = "writeUser"]
  /\ UNCHANGED <<cPoints, history, cpCalls, fnVars, syncVars, beatVars,
                 levelVars, levelFnVars, detVars, flowVars>>

\* updateUserCPoints: user.wavzProfile.cPoints += newCPoints; await
\* user.save(); then processEngagementData returns formatResult
CpWriteUser(p) ==
  /\ cp[p].pc = "writeUser"
  /\ cPoints' = cp[p].read + cp[p].doc.cPointsAwarded
  /\ cp' = [cp EXCEPT ![p] =
         [IdleProcessor EXCEPT !.period = cp[p].period, !.raw = cp[p].raw,
                               !.result = formatResult(cp[p].doc)]]
  /\ UNCHANGED <<history, cpCalls, fnVars, syncVars, beatVars, levelVars,
                 levelFnVars, detVars, flowVars>>

\* updateUserCPoints throws (User.findById or user.save() fails, or the user
\* is not found); processEngagementData logs and rethrows
CpUserUpdateFails(p) ==
  /\ cp[p].pc \in {"readUser", "writeUser"}
  /\ cp' = [cp EXCEPT ![p] =
         [IdleProcessor EXCEPT !.period = cp[p].period, !.raw = cp[p].raw,
                               !.result = ErrorResult]]
  /\ UNCHANGED <<cPoints, history, cpCalls, fnVars, syncVars, beatVars,
                 levelVars, levelFnVars, detVars, flowVars>>

NextCPoints ==
  \/ \E p \in Processors, period \in Periods, raw \in RawInputs : CpFind(p, period, raw)
  \/ \E p \in Processors : CpSave(p)
  \/ \E p \in Processors : CpReadUser(p)
  \/ \E p \in Processors : CpWriteUser(p)
  \/ \E p \in Processors : CpUserUpdateFails(p)

SpecCPoints == InitCPoints /\ [][NextCPoints]_vars

\* at most one CPointsHistory record per (platform, accountId, period)
OnePerPeriod ==
  \A g, h \in history : HistoryKey(g) = HistoryKey(h) => g = h

\* C16: there is never more than one CPointsHistory record per (userId,
\* platform, accountId, periodStart, periodEnd), and a call for a period that
\* already has a record leaves that one record updated with the call's
\* engagement data.
C16_OneRecordUpdatedInPlace ==
  /\ []OnePerPeriod
  /\ [][\A p \in Processors :
          (cp[p].pc = "idle" /\ cp'[p].pc = "idle" /\ cp'[p].result.status = "ok"
             /\ cpCalls' # cpCalls)
          => \A h \in history' :
               h.period = cp'[p].period => h.rawEngagement = cp'[p].raw]_vars


\* C17: once every processEngagementData call has ended and one of them has
\* returned a result, each call that returned got the cPointsAwarded of its
\* period's record, and user.wavzProfile.cPoints holds the cPointsAwarded of
\* every processed period exactly once, however many calls were made for it.
C17_ProcessedExactlyOnce ==
  ((\A p \in Processors : cp[p].pc = "idle")
     /\ (\E p \in Processors : cp[p].result.status = "ok"))
  => /\ \A p \in Processors :
          cp[p].result.status = "ok" =>
            \A h \in ExistingFor(cp[p].period) :
              cp[p].result.cPointsAwarded = h.cPointsAwarded
     /\ cPoints = SumOver(history, [h \in history |-> h.cPointsAwarded])

\* C18: when the user update of a processEngagementData call fails, no
\* CPointsHistory record written by that call remains.
C18_NoPartialCommit ==
  [][\A p \in Processors :
       (cp[p].pc \in {"readUser", "writeUser"} /\ cp'[p].result.status = "error")
       => ~\E h \in history' : h.id = cp[p].doc.id]_vars


(***************************************************************************)
(* SpecDeterminism: the cPoints of one input calculated several times, at  *)
(* different times, by the pre-save hook of the period-keyed               *)
(* CPointsHistory and by calculateCPointsFromEngagement.                   *)
(***************************************************************************)
\* calculations run in a behaviour
MaxRuns == 3

\* the content of an account as InsightIQ returns it, created in week 0 or 1
TimedContents ==
  {<<[platform |-> "youtube", views |-> 30000, likes |-> 1000, comments |-> 100,
      shares |-> 0, timestamp |-> 0]>>,
   <<[platform |-> "tiktok", views |-> 1000, likes |-> 100, comments |-> 10,
      shares |-> 5, timestamp |-> 1]>>,
   <<[platform |-> "youtube", views |-> 30000, likes |-> 1000, comments |-> 100,
      shares |-> 0, timestamp |-> 0],
     [platform |-> "youtube", views |-> 1000, likes |-> 100, comments |-> 10,
      shares |-> 5, timestamp |-> 1]>>}

InitDeterminism ==
  /\ dtIn \in [raw : RawInputs, content : TimedContents]
  /\ dtOut = <<>>
  /\ dtPc = 0
  /\ FnIdle /\ SyncIdle /\ BeatsIdle
  /\ LevelsIdle /\ LevelFnIdle /\ CPointsIdle /\ FlowIdle

\* one calculation that scales the result by the age weight of the run
RunCalculation_TimeWeighted(input, runWeek) ==
  [runWeek |-> runWeek,
   finalCPoints |->
     (HistoryPreSave(NewHistory(0, "week1", input.raw), TRUE, FALSE).cPointsAwarded
        * calculateTimeWeight(0, runWeek)) \div 10,
   qualityMetrics |-> assessQualityMetrics(input.content, runWeek),
   totalCPoints |-> calculateCPointsFromEngagement(input.content, runWeek)]

\* one calculation run in week runWeek: finalCPoints as the pre-save hook of a
\* new CPointsHistory document computes it, and the quality metrics and
\* totalCPoints calculateCPointsFromEngagement computes
RunCalculation(input, runWeek) ==
  [runWeek |-> runWeek,
   finalCPoints |->
     HistoryPreSave(NewHistory(0, "week1", input.raw), TRUE, FALSE).cPointsAwarded,
   qualityMetrics |-> assessQualityMetrics(input.content, runWeek),
   totalCPoints |-> calculateCPointsFromEngagement(input.content, runWeek)]

\* the input is calculated once more
DtRun ==
  /\ Len(dtOut) < MaxRuns
  /\ dtOut' = Append(dtOut, RunCalculation(dtIn, dtPc))
  /\ UNCHANGED <<dtIn, dtPc, fnVars, syncVars, beatVars, levelVars,
                 levelFnVars, cpVars, flowVars>>

\* a week passes between two calculations
DtPassWeek ==
  /\ dtPc < MaxWeeks
  /\ dtPc' = dtPc + 1
  /\ UNCHANGED <<dtIn, dtOut, fnVars, syncVars, beatVars, levelVars,
                 levelFnVars, cpVars, flowVars>>

NextDeterminism ==
  \/ DtRun
  \/ DtPassWeek

SpecDeterminism == InitDeterminism /\ [][NextDeterminism]_vars

C20_FinalValueFormula ==
  \A b \in beats :
    LET e == IF "engagement" \in DOMAIN b.performance
             THEN b.performance.engagement ELSE [num |-> 0, den |-> 1]
        onchainBonusSum ==
          SumOver(ProofTypes,
                  [p \in ProofTypes |->
                     IF b.onchainActions[p] THEN OnchainBonusPercent[p] ELSE 0])
        thousandths == b.sparksInherited
                         * (1000 * e.den + 10 * onchainBonusSum * e.den
                            + Min(200 * e.den, e.num))
        one == 1000 * e.den * 1000
    IN  \/ b.finalValue * (one \div 1000) = thousandths
        \/ b.finalValue = 1000 * ((thousandths + one \div 2) \div one)


\* C21: whenever no Beat operation is in flight, wavzProfile.totalBeats is the
\* number of the user's Beats and wavzProfile.beatsValue is the sum of their
\* finalValue.
C21_AggregateMatchesBeats ==
  (\A p \in Creators : cb[p].pc = "idle") =>
    /\ user.totalBeats = Cardinality(beats)
    /\ user.beatsValue = SumOver(beats, [b \in beats |-> b.finalValue])


\* C22: no lost update on user.wavzProfile.cPoints: every processEngagementData
\* call that credits its award leaves cPoints at the value stored just before
\* its write plus the award, whatever other calls ran in between.
C22_NoLostUpdate ==
  [][\A p \in Processors :
       (cp[p].pc = "writeUser" /\ cp'[p].result.status = "ok")
       => cPoints' = cPoints + cp[p].doc.cPointsAwarded]_vars


\* C23: in POST /calculate-sparks a snapshot is persisted only by the save
\* step of an account whose delta and delta score have been computed from the
\* snapshot read for it, and it carries exactly those; once the delta or score
\* computation of an account has thrown, no step of that sync changes the
\* account's snapshots, so the next sync reads the same previous snapshot.
C23_SnapshotAfterDeltaAndScore ==
  [][/\ (snapshots' # snapshots) =>
          /\ rt.pc = "save"
          /\ rt.delta = calculateDelta(rt.currentMetrics, rt.lastSnapshot)
          /\ rt.deltaSparks =
               calculateSparksFromDelta(rt.delta, RoutePlatformOf[RtAccount])
          /\ snapshots' = snapshots \cup
               {NewSnapshot(RtAccount, RoutePlatformOf[RtAccount],
                            rt.currentMetrics, rt.delta, rt.deltaSparks,
                            rt.contentCount, clock)}
     /\ \A a \in rt'.thrown :
          {s \in snapshots' : s.accountId = a} = SnapshotsOf(a)]_vars

\* C23 witness: the second sync has ended, the computation for acc1 threw in
\* it, and acc1 still has the snapshot the first sync persisted
C23_Witness ==
  /\ rt.pc = "done"
  /\ rt.begun = 2
  /\ "acc1" \in rt.thrown
  /\ SnapshotsOf("acc1") # {}
  /\ \E s \in SnapshotsOf("acc2") : s.syncedAt > 0


\* C24: an account whose content count is 0 is skipped without a snapshot row
\* and without an error: a request in which nothing was thrown and no store
\* call failed does not end in an error response, also when every account has
\* no content.
C24_NoErrorFromEmptyAccounts ==
  (rt.pc = "done" /\ ~rt.faulted) => rt.status = 200


\* C25: sparks are cumulative across syncs: a sync that answers 200 leaves
\* user.wavzProfile.sparks at its value before the sync plus the sum of the
\* delta scores of the accounts processed in it (so a sync without new
\* engagement leaves it unchanged).
C25_SparksCumulative ==
  [][(rt.pc = "respond" /\ rt'.status = 200)
     => profile'.sparks * 100 = profile.sparks * 100 + SeqSum(rt.deltaScores)]_vars


\* C26: an addOnChainProof call for a proof the Beat already holds does not
\* increase the user's proofStats[proofType] and adds nothing to the user's
\* beatsValue.
C26_RepeatedProofNotCounted ==
  [][\A id \in BeatIds, proofType \in ProofInputs :
       (AddOnChainProof(id, proofType) /\ BeatById(id).onchainActions[proofType])
         => /\ user'.proofStats[proofType] = user.proofStats[proofType]
            /\ user'.beatsValue = user.beatsValue]_vars


\* C27: after every engagement update of a Beat, the Beat is trending if its
\* finalValue is at least 1.5 times its initial value, and a Beat that was
\* trending before the update is still trending after it.
C27_TrendingSetAndKept ==
  [][\A id \in BeatIds, m \in EngagementInputs :
       (BackupUpdateBeatEngagement(id, m) \/ LiveUpdateBeatPerformance(id, m))
       => \A b \in beats' :
            b.beatId = id =>
              /\ (2 * b.finalValue >=
                    3 * (IF "initialValue" \in DOMAIN b.performance
                         THEN b.performance.initialValue
                         ELSE b.sparksInherited))
                   => b.performance.trending
              /\ BeatById(id).performance.trending => b.performance.trending]_vars


\* C28: for a platform without a rate table (any platform other than youtube,
\* instagram, twitter, tiktok and spotify) the score calculation completes
\* and yields likes * 1 + comments * 2 + views * 0.01 of the delta, unrounded
\* (here in hundredths of a Spark), from calculateSparksFromDelta and from
\* calculatePlatformSparks alike.
C28_UnratedPlatformDefault ==
  (/\ fnPc = "done"
   /\ toLowerCase(fnPlatform)
        \notin {"youtube", "instagram", "twitter", "tiktok", "spotify"})
  => /\ fnSparks = fnDelta.likes * 100 + fnDelta.comments * 200 + fnDelta.views
     /\ calculatePlatformSparks(
          [platform |-> fnPlatform, totalLikes |-> fnDelta.likes,
           totalComments |-> fnDelta.comments, totalViews |-> fnDelta.views,
           followerCount |-> 1]) = fnSparks

\* C28 witness: a twitch delta with a like and a view has been scored 1.01
C28_Witness ==
  /\ fnPc = "done"
  /\ fnPlatform = "twitch"
  /\ fnDelta.likes = 1
  /\ fnDelta.views = 1
  /\ fnSparks = 101


\* C29: a store error inside getLastSnapshot does not drop the account: the
\* lookup answers null and the sync goes on as a first sync, calculateDelta
\* counts the entire current totals as new, and the snapshot that is persisted
\* carries that delta.
C29_LookupFailureIsFirstSync ==
  [][/\ (rt.pc = "getLast" /\ rt' # rt) =>
          /\ rt'.pc = "compute"
          /\ rt'.lookupFailed => rt'.lastSnapshot = NoSnapshot
     /\ (rt.pc = "compute" /\ rt.lookupFailed /\ rt'.pc = "save") =>
          \A d \in DeltaFields : rt'.delta[d] = rt.currentMetrics[TotalOf[d]]
     /\ (rt.pc = "save" /\ rt.lookupFailed /\ snapshots' # snapshots) =>
          \E s \in snapshots' \ snapshots :
            /\ s.accountId = RtAccount
            /\ \A d \in DeltaFields :
                 s.deltaFromPrevious[d] = rt.currentMetrics[TotalOf[d]]]_vars

\* C29 witness: acc1 had a snapshot with one like; the lookup of the next sync
\* failed, and the snapshot that sync persisted counts the like as new again
C29_Witness ==
  /\ rt.pc = "respond"
  /\ rt.lookupFailed
  /\ content["acc2"] = 0
  /\ \E s, t \in SnapshotsOf("acc1") :
       /\ s.syncedAt < t.syncedAt
       /\ s.snapshot.totalLikes = 1
       /\ t.snapshot.totalLikes = 1
       /\ t.deltaFromPrevious.likes = 1


\* C30: getAllContentWithEngagements always terminates: it returns after the
\* first empty page, the first page of fewer than 100 items or once at least
\* 1000 items are collected, and it throws on a request error; it keeps
\* looping only after a full page below 1000 items. With pages of at most 100
\* items at most 10 page requests are made, the first at offset 0 and each
\* further one at an offset 100 greater than the previous.
C30_PaginationTerminates ==
  /\ <>(pg.pc \in {"returned", "thrown"})
  /\ [](/\ pg.pc = "returned" =>
             \/ pg.last = 0
             \/ pg.last < 100
             \/ pg.allContent >= 1000
        /\ (pg.pc = "loop" /\ pg.requests # <<>>) =>
             (pg.last >= 100 /\ pg.allContent < 1000)
        /\ pg.largest <= 100 => Len(pg.requests) <= 10
        /\ \A k \in 1..Len(pg.requests) :
             pg.requests[k] = IF k = 1 THEN 0 ELSE pg.requests[k - 1] + 100)

\* C30 witness: ten full pages were requested, at offsets 0 to 900, and the
\* call returned the 1000 items
C30_Witness ==
  /\ pg.pc = "returned"
  /\ pg.largest = 100
  /\ Len(pg.requests) = 10
  /\ pg.requests[10] = 900
  /\ pg.allContent = 1000

====
